---- MODULE Spec2Model ----
(***************************************************************************)
(* advfs: an in-memory filesystem image (superblock, inode table,         *)
(* block-management table, data blocks).                                   *)
(*                                                                         *)
(* Two programs of the repository work on that image:                      *)
(*   - src/src/main.c, the mounted filesystem (its own static helpers and  *)
(*     main()): specification Spec;                                        *)
(*   - src/src/ramblock.c over the image built by src/src/init.c, the      *)
(*     content-addressed block engine: specification SpecBlock.            *)
(* SpecThreads runs main.c's allocator in two threads of the host;         *)
(* SpecTree and SpecMap apply ramblock.c's hash index and block map to     *)
(* prepared records and grown maps.                                        *)
(*                                                                         *)
(* Scale.  A block is ADVFS_BLOCK_SIZE cells; a cell stands for a byte of  *)
(* file data and also for one uint64_t slot (WordSize cells per slot), so  *)
(* ADVFS_BLOCK_SIZE / sizeof(uint64_t) is PtrsPerBlock.  The image sizes   *)
(* are the source's constants scaled down, their order relations kept.     *)
(***************************************************************************)
EXTENDS Integers, Sequences, FiniteSets, TLC

\* ------------------------------------------------------------ constants
ADVFS_BLOCK_SIZE == 2
ADVFS_BLOCK_NUM == 7
ADVFS_INODE_NUM == 3
ADVFS_NUM_ENTRIES == 2
ADVFS_MAX_CHILDREN == 3
ADVFS_INODE_BLOCKPTR == 2
\* sizeof(uint64_t), in cells
WordSize == 1
\* ADVFS_BLOCK_SIZE / sizeof(advfs_inode_t), ADVFS_BLOCK_SIZE / sizeof(advfs_block_mgt_t)
InodesPerBlock == 3
MgtPerBlock == 7
\* width of the unsigned counters (uint64_t, scaled): x - 1 of 0 wraps to UMax
UWidth == 16

ADVFS_UNUSED == 0
ADVFS_REGULAR_FILE == 1
ADVFS_DIR == 2

ENOENT == 2
EACCES == 13
EFAULT == 14
EEXIST == 17
ENOTDIR == 20
EISDIR == 21
ENOTEMPTY == 39
EDQUOT == 122

O_RDONLY == 0
O_WRONLY == 1
O_RDWR == 2

\* ------------------------------------------------------------ bounds
\* the words malloc() may have left in memory that no code initialises: 0..MaxGarbage
MaxGarbage == 1
\* file offsets and lengths of read/write/truncate
MaxOff == 2
MaxLen == 2
\* logical block indices handed to the block engine
MaxPos == 2
\* the value an uninitialised loop counter (ssize_t j) may hold: 0..MaxStaleJ
MaxStaleJ == 2
\* the distinct payloads written through the block engine: 1..MaxPayload
MaxPayload == 2
\* the number of operations of a run
MaxOps == 4
\* the threads of the host that run handlers, and the handlers each of them runs
NThreads == 2
MaxCalls == 2

\* ------------------------------------------------------------ layout
PtrsPerBlock == ADVFS_BLOCK_SIZE \div WordSize
\* slots of an indirect block (the last one is the chain link)
ChainK == PtrsPerBlock - 1
\* the blocks of a table of num records, ratio of them in a block
TableBlocks(num, ratio) == num \div ratio
\* a count of data blocks that leaves the superblock's own block out
C17_SuperblockUncounted(block_num, ni, nm) == block_num - (ni + nm)
\* sblk->n_blocks: what the superblock and the two tables leave of the image
DataBlockCount(block_num, ni, nm) == block_num - (1 + ni + nm)
nblk_inode == TableBlocks(ADVFS_INODE_NUM, InodesPerBlock)
nblk_mgt == TableBlocks(ADVFS_BLOCK_NUM, MgtPerBlock)
PtrInode == 1
PtrBlockMgt == 1 + nblk_inode
PtrBlock == 1 + nblk_inode + nblk_mgt
NBlocks == DataBlockCount(ADVFS_BLOCK_NUM, nblk_inode, nblk_mgt)

UMax == 2 ^ UWidth
Cells == 0 .. (ADVFS_BLOCK_SIZE - 1)
AllBlocks == 0 .. (ADVFS_BLOCK_NUM - 1)
DataBlocks == PtrBlock .. (ADVFS_BLOCK_NUM - 1)
InodeNrs == 0 .. (ADVFS_INODE_NUM - 1)
Slots == 0 .. (ADVFS_INODE_BLOCKPTR - 1)
Garbage == 0 .. MaxGarbage

\* what a cell of the inode table or of the block-management table reads as
\* when it is read as file data or as a block number
MetaCell == -4

\* a reference to an inode: a number of the inode table, the root inode
\* embedded in the superblock (main.c), or NULL
ROOT == -1
NULL == -2

\* the image; whether the process still runs ("ok"), hangs in a loop ("hang"),
\* was killed by a wild access ("fault") or by assert() ("abort"); the last
\* operation called and what it returned; the number of operations called so far;
\* for each thread of the host, where it stands in the handler it runs
VARIABLES sb, root, inodes, mgt, blk, status, op, ret, nops, thr

vars == <<sb, root, inodes, mgt, blk, status, op, ret, nops, thr>>

Threads == 1 .. NThreads

\* a thread that runs no handler: pc is its position, site the _alloc_block
\* call it is in (2: the chain block b2, 1: the data block b1), n the value of
\* n_block_used it has loaded, own the blocks it has put into block maps
IdleThread == [pc |-> "idle", site |-> 0, b2 |-> 0, b1 |-> 0, n |-> 0, own |-> {}, calls |-> 0]

\* the handler of thread t returns: its locals are gone
Returned(th, t) ==
    [th EXCEPT ![t].pc = "idle", ![t].site = 0, ![t].b2 = 0, ![t].b1 = 0, ![t].n = 0]

\* the image, as one value handed through the helpers
Img == [sb |-> sb, root |-> root, inodes |-> inodes, mgt |-> mgt, blk |-> blk]

\* unsigned arithmetic of the counters
UInc(x) == (x + 1) % UMax
UDec(x) == (x + UMax - 1) % UMax

\* ------------------------------------------------------------ main.c: raw access
\* the first cells of the superblock, in the order of the struct
SuperCells(m) ==
    <<PtrInode, PtrBlockMgt, PtrBlock, ADVFS_INODE_NUM, m.sb.n_inode_used,
      NBlocks, m.sb.n_block_used, m.sb.freelist>>

\* the block at block number b, as its cells: block 0 is the superblock, the
\* blocks below PtrBlock hold the inode and block-management tables
_get_block(m, b) ==
    IF b = 0 THEN [c \in Cells |-> SuperCells(m)[c + 1]]
    ELSE IF b \in DataBlocks THEN m.blk[b]
    ELSE [c \in Cells |-> MetaCell]

\* every block number the code dereferences is inside the image
InImage(b) == b \in AllBlocks

_get_inode(m, nr) == IF nr = ROOT THEN m.root ELSE m.inodes[nr]

PutInode(m, nr, e) ==
    IF nr = ROOT THEN [m EXCEPT !.root = e] ELSE [m EXCEPT !.inodes[nr] = e]

\* a store of one uint64_t slot: into the inode's blocks[] (at = 0) or into
\* slot pos of the block at
PutSlot(m, nr, at, pos, v) ==
    IF at = 0 THEN PutInode(m, nr, [_get_inode(m, nr) EXCEPT !.blocks[pos] = v])
    ELSE [m EXCEPT !.blk[at][pos] = v]

\* ------------------------------------------------------------ main.c: free list
\* the counter a block taken off the free list is not counted by
C6_AllocUncounted(n) == n

\* advfs->superblock->n_block_used++
UsedAfterAlloc(n) == UInc(n)

_alloc_block(m) ==
    IF m.sb.freelist = 0 THEN [m |-> m, b |-> 0]
    ELSE [m |-> [m EXCEPT !.sb.freelist = _get_block(m, m.sb.freelist)[0],
                          !.sb.n_block_used = UsedAfterAlloc(m.sb.n_block_used)],
          b |-> m.sb.freelist]

_free_block(m, b) ==
    [m EXCEPT !.blk[b][0] = m.sb.freelist,
              !.sb.freelist = b,
              !.sb.n_block_used = UDec(m.sb.n_block_used)]

\* ------------------------------------------------------------ main.c: block map
\* the slot read through the cursor (at = 0: the inode's blocks[])
SlotAt(m, nr, at, pos) ==
    IF at = 0 THEN _get_inode(m, nr).blocks[pos] ELSE _get_block(m, at)[pos]

\* the slot that links to the next block of the map when the loops of
\* _increase_block and _shrink_block stand at logical block i with cursor pos
\* (-1: no link is crossed)
LinkAt(i, pos) ==
    IF i = ADVFS_INODE_BLOCKPTR - 1 THEN ADVFS_INODE_BLOCKPTR - 1
    ELSE IF pos = ChainK THEN ChainK
    ELSE -1

BumpNBlocks(m, nr) ==
    PutInode(m, nr, [_get_inode(m, nr) EXCEPT !.n_blocks = @ + 1])

RECURSIVE IncreaseLoop(_, _, _, _, _, _)
RECURSIVE IncreaseData(_, _, _, _, _, _, _, _)

\* "Allocate": a is the outcome of _alloc_block for the data block b1; b2 is
\* the chain block taken in this iteration (0: none)
IncreaseDataAlloc(a, nr, nb, i, at, pos, b2) ==
    IF a.b = 0
    THEN [m |-> IF b2 # 0 THEN _free_block(a.m, b2) ELSE a.m, rc |-> -1]
    ELSE IncreaseLoop(BumpNBlocks(PutSlot(a.m, nr, at, pos, a.b), nr),
                      nr, nb, i + 1, at, pos + 1)

IncreaseData(m, nr, nb, i, at, pos, alloc, b2) ==
    IF ~alloc THEN IncreaseLoop(m, nr, nb, i + 1, at, pos + 1)
    ELSE IncreaseDataAlloc(_alloc_block(m), nr, nb, i, at, pos, b2)

\* "Next chain" with alloc: a is the outcome of _alloc_block for the chain block
IncreaseChainAlloc(a, nr, nb, i, at, link) ==
    IF a.b = 0 THEN [m |-> a.m, rc |-> -1]
    ELSE IncreaseData(PutSlot(a.m, nr, at, link, a.b), nr, nb, i, a.b, 0, TRUE, a.b)

\* "Next chain" without alloc: the cursor moves to the chain block b2
IncreaseChainFollow(m, nr, nb, i, b2) ==
    IncreaseData(m, nr, nb, i, b2, 0, FALSE, b2)

IncreaseStep(m, nr, nb, i, at, pos, alloc, link) ==
    IF link < 0 THEN IncreaseData(m, nr, nb, i, at, pos, alloc, 0)
    ELSE IF alloc THEN IncreaseChainAlloc(_alloc_block(m), nr, nb, i, at, link)
    ELSE IncreaseChainFollow(m, nr, nb, i, SlotAt(m, nr, at, link))

\* the for loop of _increase_block from iteration i on; (at, pos) is the
\* cursor `block`, `pos`
IncreaseLoop(m, nr, nb, i, at, pos) ==
    IF i >= nb THEN [m |-> m, rc |-> 0]
    ELSE IncreaseStep(m, nr, nb, i, at, pos,
                      i >= _get_inode(m, nr).n_blocks, LinkAt(i, pos))

_increase_block(m, nr, nb) == IncreaseLoop(m, nr, nb, 0, 0, 0)

\* `free` of _shrink_block: the loop runs i over 0 .. nb - 1 and frees where this holds
ShrinkFrees(i, nb) == i >= nb

RECURSIVE ShrinkLoop(_, _, _, _, _, _, _)

\* "if ( free ) _free_block(advfs, block[pos])"
ShrinkData(m, nr, nb, i, at, pos, fb, free) ==
    ShrinkLoop(IF free THEN _free_block(m, SlotAt(m, nr, at, pos)) ELSE m,
               nr, nb, i + 1, at, pos + 1, fb)

\* "Next chain": the pending chain block fb has been freed, b is the next one
ShrinkChain(m, nr, nb, i, b, free) ==
    ShrinkData(m, nr, nb, i, b, 0, IF free THEN b ELSE 0, free)

ShrinkStep(m, nr, nb, i, at, pos, fb, free, link) ==
    IF link < 0 THEN ShrinkData(m, nr, nb, i, at, pos, fb, free)
    ELSE ShrinkChain(IF fb # 0 THEN _free_block(m, fb) ELSE m, nr, nb, i,
                     SlotAt(m, nr, at, link), free)

ShrinkLoop(m, nr, nb, i, at, pos, fb) ==
    IF i >= nb THEN [m |-> m, fb |-> fb]
    ELSE ShrinkStep(m, nr, nb, i, at, pos, fb, ShrinkFrees(i, nb), LinkAt(i, pos))

ShrinkEnd(r, nr, nb) ==
    [m |-> PutInode(IF r.fb # 0 THEN _free_block(r.m, r.fb) ELSE r.m, nr,
                    [_get_inode(r.m, nr) EXCEPT !.n_blocks = nb]),
     rc |-> 0]

_shrink_block(m, nr, nb) == ShrinkEnd(ShrinkLoop(m, nr, nb, 0, 0, 0, 0), nr, nb)

ResizeFrom(m, nr, nb, n_blocks) ==
    IF nb < n_blocks THEN _shrink_block(m, nr, nb)
    ELSE IF nb > n_blocks THEN _increase_block(m, nr, nb)
    ELSE [m |-> m, rc |-> 0]

_resize_block(m, nr, nb) == ResizeFrom(m, nr, nb, _get_inode(m, nr).n_blocks)

\* the walk shared by _get_inode_in_dir, _set_inode_in_dir, _read_block and
\* _write_block: the physical block of logical block pos
RECURSIVE ChainWalk(_, _, _)
ChainWalk(m, b, pos) ==
    IF ~InImage(b) THEN MetaCell
    ELSE IF pos >= ChainK THEN ChainWalk(m, _get_block(m, b)[ChainK], pos - ChainK)
    ELSE _get_block(m, b)[pos]

BlockOf(m, e, pos) ==
    IF pos < ADVFS_INODE_BLOCKPTR - 1 THEN e.blocks[pos]
    ELSE ChainWalk(m, e.blocks[ADVFS_INODE_BLOCKPTR - 1], pos - (ADVFS_INODE_BLOCKPTR - 1))

\* ------------------------------------------------------------ main.c: directories
MinOf(S) == CHOOSE x \in S : \A y \in S : x <= y

ZeroInode(name) ==
    [type |-> ADVFS_UNUSED, size |-> 0, n_blocks |-> 0, name |-> name,
     blocks |-> [k \in Slots |-> 0]]

_get_inode_in_dir(m, e, nr) ==
    _get_block(m, BlockOf(m, e, nr \div PtrsPerBlock))[nr % PtrsPerBlock]

\* block[idx] = inode; dir->attr.size++
SetEntry(m, dir, inode, b, idx) ==
    [m |-> PutInode([m EXCEPT !.blk[b][idx] = inode], dir,
                    [_get_inode(m, dir) EXCEPT !.size = @ + 1]),
     rc |-> 0]

SetAfterResize(r, dir, inode, bidx, idx) ==
    IF r.rc # 0 THEN [m |-> r.m, rc |-> -1]
    ELSE SetEntry(r.m, dir, inode, BlockOf(r.m, _get_inode(r.m, dir), bidx), idx)

SetInDir(m, dir, inode, d) ==
    IF d.type # ADVFS_DIR THEN [m |-> m, rc |-> -1]
    ELSE SetAfterResize(_resize_block(m, dir, d.size \div PtrsPerBlock + 1), dir, inode,
                        d.size \div PtrsPerBlock, d.size % PtrsPerBlock)

_set_inode_in_dir(m, dir, inode) == SetInDir(m, dir, inode, _get_inode(m, dir))

\* the inode numbers _find_free_inode scans
FreeInodeScan == 0 .. (ADVFS_NUM_ENTRIES - 1)

FirstFree(free) == IF free = {} THEN NULL ELSE MinOf(free)

_find_free_inode(m) ==
    FirstFree({i \in FreeInodeScan : m.inodes[i].type = ADVFS_UNUSED})

\* the child indices of directory c whose inode carries the name
Matches(m, c, name) ==
    {i \in 0 .. (c.size - 1) : _get_inode(m, _get_inode_in_dir(m, c, i)).name = name}

RECURSIVE _path2inode_rec(_, _, _, _)

\* "Found": e is the first child carrying the name
LookupFound(m, e, rest, create) ==
    IF rest = <<>> THEN [m |-> m, e |-> e]
    ELSE IF _get_inode(m, e).type = ADVFS_DIR THEN _path2inode_rec(m, e, rest, create)
    ELSE [m |-> m, e |-> NULL]

\* memset(e, 0, sizeof(advfs_inode_t)); memcpy(e->name, name, len + 1)
LookupCreated(r, inode, name) ==
    IF r.rc # 0 THEN [m |-> r.m, e |-> NULL]
    ELSE [m |-> PutInode(r.m, inode, ZeroInode(name)), e |-> inode]

\* "Create"
LookupCreate(m, cur, c, name, inode) ==
    IF c.size >= ADVFS_MAX_CHILDREN THEN [m |-> m, e |-> NULL]
    ELSE IF inode = NULL THEN [m |-> m, e |-> NULL]
    ELSE LookupCreated(_set_inode_in_dir(m, cur, inode), inode, name)

LookupName(m, cur, c, name, rest, create, hits) ==
    IF hits # {}
    THEN LookupFound(m, _get_inode_in_dir(m, c, MinOf(hits)), rest, create)
    ELSE IF rest = <<>> /\ create # 0
    THEN LookupCreate(m, cur, c, name, _find_free_inode(m))
    ELSE [m |-> m, e |-> NULL]

LookupIn(m, cur, c, path, create) ==
    IF c.type # ADVFS_DIR THEN [m |-> m, e |-> NULL]
    ELSE IF path = <<>> THEN [m |-> m, e |-> cur]
    ELSE LookupName(m, cur, c, Head(path), Tail(path), create, Matches(m, c, Head(path)))

\* a path is the sequence of its components; the empty path is "/"
_path2inode_rec(m, cur, path, create) ==
    LookupIn(m, cur, _get_inode(m, cur), path, create)

advfs_path2inode(m, path, create) == _path2inode_rec(m, ROOT, path, create)

\* a removal that leaves the inodes of the later children where they are
C11_NoShift(m, cur, i) == m

RECURSIVE ShiftLoop(_, _, _)
\* "Shift the child entries": for ( ; i < cur->attr.size; i++ ) memcpy(inode of
\* child i, inode of child i + 1)
ShiftLoop(m, cur, i) ==
    IF i >= _get_inode(m, cur).size THEN m
    ELSE ShiftLoop(PutInode(m, _get_inode_in_dir(m, _get_inode(m, cur), i),
                            _get_inode(m, _get_inode_in_dir(m, _get_inode(m, cur), i + 1))),
                   cur, i + 1)

RemoveResized(r) ==
    IF r.rc # 0 THEN [m |-> r.m, rc |-> -EFAULT] ELSE [m |-> r.m, rc |-> 0]

\* "Resize"
RemoveResize(m, cur) ==
    RemoveResized(_resize_block(m, cur,
                      (_get_inode(m, cur).size + PtrsPerBlock - 1) \div PtrsPerBlock))

\* "Shift the child entries", after cur->attr.size--
RemoveShift(m, cur, i) == RemoveResize(ShiftLoop(m, cur, i), cur)

\* a removal that marks the inode and leaves the size of the directory
C37_MarkOnly(m, cur, e) ==
    PutInode(m, e, [_get_inode(m, e) EXCEPT !.type = ADVFS_UNUSED])

\* e->attr.type = ADVFS_UNUSED; cur->attr.size--
RemoveMark(m, cur, e) ==
    PutInode(PutInode(m, e, [_get_inode(m, e) EXCEPT !.type = ADVFS_UNUSED]),
             cur, [_get_inode(m, cur) EXCEPT !.size = @ - 1])

RECURSIVE _remove_inode_rec(_, _, _)

\* a removal that does not look at what the entry holds
C12_RemoveNonEmpty(m, cur, i, e, ino, rest) == RemoveShift(RemoveMark(m, cur, e), cur, i)

RemoveFound(m, cur, i, e, ino, rest) ==
    IF rest # <<>>
    THEN IF ino.type = ADVFS_DIR THEN _remove_inode_rec(m, e, rest)
         ELSE [m |-> m, rc |-> -ENOENT]
    ELSE IF ino.type = ADVFS_DIR /\ ino.size > 0 THEN [m |-> m, rc |-> -ENOTEMPTY]
    ELSE RemoveShift(RemoveMark(m, cur, e), cur, i)

RemoveAt(m, cur, c, i, e, rest) == RemoveFound(m, cur, i, e, _get_inode(m, e), rest)

RemoveName(m, cur, c, rest, hits) ==
    IF hits = {} THEN [m |-> m, rc |-> -ENOENT]
    ELSE RemoveAt(m, cur, c, MinOf(hits), _get_inode_in_dir(m, c, MinOf(hits)), rest)

RemoveIn(m, cur, c, path) ==
    IF c.type # ADVFS_DIR THEN [m |-> m, rc |-> -ENOENT]
    ELSE IF path = <<>> THEN [m |-> m, rc |-> -ENOENT]
    ELSE RemoveName(m, cur, c, Tail(path), Matches(m, c, Head(path)))

_remove_inode_rec(m, cur, path) == RemoveIn(m, cur, _get_inode(m, cur), path)

advfs_remove_inode(m, path) == _remove_inode_rec(m, ROOT, path)

\* ------------------------------------------------------------ hashing
\* SHA384 of a block: a collision-free digest of its cells, never 0
HashBase == 16
RECURSIVE HashFrom(_, _)
HashFrom(c, i) ==
    IF i >= ADVFS_BLOCK_SIZE THEN 0 ELSE (c[i] + 1) + HashBase * HashFrom(c, i + 1)
SHA384(c) == 1 + HashFrom(c, 0)

\* ------------------------------------------------------------ main.c: block I/O
BlockRead(m, b) ==
    IF InImage(b) THEN [ok |-> TRUE, block |-> _get_block(m, b)]
    ELSE [ok |-> FALSE, block |-> [c \in Cells |-> MetaCell]]

\* the block read, or a fault when the block number resolved lies outside
\* the image
_read_block(m, e, pos) == BlockRead(m, BlockOf(m, e, pos))

\* the block-management record whose hash _write_block stores
WriteBlockMgtIndex(b, pos) == pos

BlockWrite(m, b, buf, pos) ==
    IF b \in DataBlocks
    THEN [ok |-> TRUE,
          m |-> [m EXCEPT !.mgt[WriteBlockMgtIndex(b, pos)].hash = SHA384(buf),
                          !.blk[b] = buf]]
    ELSE [ok |-> FALSE, m |-> m]

_write_block(m, e, buf, pos) == BlockWrite(m, BlockOf(m, e, pos), buf, pos)

MinI(a, b) == IF a < b THEN a ELSE b

\* ------------------------------------------------------------ main.c: read
\* the index of the block cell copied to buf[k]: for ( i = offset % BS, j = 0; ...)
\* buf[k] = block[j]
ReadCell(i, j) == j

RECURSIVE ReadLoop(_, _, _, _, _)

\* the for loop: n bytes of the block r go to the caller's buffer
ReadChunk(m, e, offset, remain, out, r, i0, n) ==
    IF ~r.ok THEN [ok |-> FALSE, buf |-> out]
    ELSE ReadLoop(m, e, offset + n, remain - n,
                  out \o [t \in 1 .. n |-> r.block[ReadCell(i0 + t - 1, t - 1)]])

ReadLoop(m, e, offset, remain, out) ==
    IF remain <= 0 THEN [ok |-> TRUE, buf |-> out]
    ELSE ReadChunk(m, e, offset, remain, out,
                   _read_block(m, e, offset \div ADVFS_BLOCK_SIZE),
                   offset % ADVFS_BLOCK_SIZE,
                   MinI(ADVFS_BLOCK_SIZE - (offset % ADVFS_BLOCK_SIZE), remain))

\* ------------------------------------------------------------ main.c: write
RECURSIVE WriteLoop(_, _, _, _, _, _)

WriteChunkDone(m, w, nr, buf, offset, remain, n) ==
    IF ~w.ok THEN [st |-> "fault", m |-> m]
    ELSE WriteLoop(w.m, nr, buf, offset + n, remain - n, n)

\* block[i] = buf[j] for i from offset % BS, j from 0; then _write_block
WriteChunk(m, nr, buf, offset, remain, r, pos, i0, n) ==
    IF ~r.ok THEN [st |-> "fault", m |-> m]
    ELSE WriteChunkDone(m,
             _write_block(m, _get_inode(m, nr),
                          [c \in Cells |->
                              IF c >= i0 /\ c < i0 + n THEN buf[c - i0 + 1] ELSE r.block[c]],
                          pos),
             nr, buf, offset, remain, n)

\* j is the value of the loop's `j` at the top of the while body; st is
\* "ok", "hang" (the loop makes no progress) or "fault"
WriteLoop(m, nr, buf, offset, remain, j) ==
    IF remain <= 0 THEN [st |-> "ok", m |-> m]
    ELSE IF offset % ADVFS_BLOCK_SIZE # 0
    THEN WriteChunk(m, nr, buf, offset, remain,
                    _read_block(m, _get_inode(m, nr), offset \div ADVFS_BLOCK_SIZE),
                    offset \div ADVFS_BLOCK_SIZE, offset % ADVFS_BLOCK_SIZE,
                    MinI(ADVFS_BLOCK_SIZE - (offset % ADVFS_BLOCK_SIZE), remain))
    ELSE IF j = 0 THEN [st |-> "hang", m |-> m]
    ELSE WriteLoop(m, nr, buf, offset + j, remain - j, j)

\* ------------------------------------------------------------ main.c: truncate
RECURSIVE TruncLoop(_, _, _)

TruncChunkDone(m, w, nr, size) ==
    IF ~w.ok THEN [st |-> "fault", m |-> m] ELSE TruncLoop(w.m, nr, size)

\* block[i] = 0; e->attr.size++ for n cells from i0; then _write_block
TruncChunk(m, nr, size, e, r, pos, i0, n) ==
    IF ~r.ok THEN [st |-> "fault", m |-> m]
    ELSE TruncChunkDone(m,
             _write_block(PutInode(m, nr, [e EXCEPT !.size = e.size + n]),
                          e,
                          [c \in Cells |-> IF c >= i0 /\ c < i0 + n THEN 0 ELSE r.block[c]],
                          pos),
             nr, size)

TruncFrom(m, nr, size, e) ==
    IF e.size >= size THEN [st |-> "ok", m |-> m]
    ELSE TruncChunk(m, nr, size, e, _read_block(m, e, e.size \div ADVFS_BLOCK_SIZE),
                    e.size \div ADVFS_BLOCK_SIZE, e.size % ADVFS_BLOCK_SIZE,
                    MinI(ADVFS_BLOCK_SIZE - (e.size % ADVFS_BLOCK_SIZE), size - e.size))

TruncLoop(m, nr, size) == TruncFrom(m, nr, size, _get_inode(m, nr))

\* ------------------------------------------------------------ initial images
\* what main() and advfs_init() leave in the malloc()ed image: g is the word
\* found in the memory they do not initialise
FreshBlocks(g) ==
    [b \in DataBlocks |->
        [c \in Cells |->
            IF c = 0 THEN (IF b = ADVFS_BLOCK_NUM - 1 THEN 0 ELSE b + 1) ELSE g]]

FreshMgt(g) ==
    [b \in AllBlocks |->
        [hash |-> g, ref |-> IF b < NBlocks THEN 0 ELSE g, left |-> g, right |-> g]]

FreshInode(g) ==
    [type |-> ADVFS_UNUSED, size |-> g, n_blocks |-> g, name |-> "",
     blocks |-> [k \in Slots |-> g]]

RootInode(g) ==
    [type |-> ADVFS_DIR, size |-> 0, n_blocks |-> 0, name |-> "",
     blocks |-> [k \in Slots |-> g]]

FreshSuper(g) ==
    [n_inode_used |-> 0, n_block_used |-> 0, freelist |-> PtrBlock, block_mgt_root |-> g]

\* main(): the root inode is the one embedded in the superblock
Init ==
    \E g \in Garbage :
        /\ sb = FreshSuper(g)
        /\ root = RootInode(g)
        /\ inodes = [i \in InodeNrs |-> FreshInode(g)]
        /\ mgt = FreshMgt(g)
        /\ blk = FreshBlocks(g)
        /\ status = "ok"
        /\ op = "init"
        /\ ret = 0
        /\ nops = 0
        /\ thr = [t \in Threads |-> IdleThread]

\* ------------------------------------------------------------ main.c: operations
Paths == {<<>>, <<"a">>, <<"b">>, <<"a", "b">>}
Flags == {O_RDONLY, O_WRONLY, O_RDWR}
\* the caller's buffers: n bytes, each position with a byte of its own
Buffers == {[i \in 1 .. n |-> i] : n \in 0 .. MaxLen}

\* what a call leaves: the image, the value returned, the status of the process
Result(m, rc, st) == [m |-> m, rc |-> rc, st |-> st]

Done(name, r) ==
    /\ sb' = r.m.sb
    /\ root' = r.m.root
    /\ inodes' = r.m.inodes
    /\ mgt' = r.m.mgt
    /\ blk' = r.m.blk
    /\ status' = r.st
    /\ op' = name
    /\ ret' = r.rc
    /\ nops' = nops + 1
    /\ thr' = thr

\* "e->attr.type = type" on the inode advfs_path2inode(path, 1) created
MakeEntryCreated(r, type) ==
    IF r.e = NULL THEN Result(r.m, -EACCES, "ok")
    ELSE Result(PutInode(r.m, r.e, [_get_inode(r.m, r.e) EXCEPT !.type = type]), 0, "ok")

\* a create that does not look for the name first
C18_CreateOverExisting(m, path, type, e0) ==
    MakeEntryCreated(advfs_path2inode(m, path, 1), type)

MakeEntryFrom(m, path, type, e0) ==
    IF e0 # NULL THEN Result(m, -EEXIST, "ok")
    ELSE MakeEntryCreated(advfs_path2inode(m, path, 1), type)

\* advfs_create and advfs_mkdir: the type given to the new inode
MakeEntry(m, path, type) == MakeEntryFrom(m, path, type, advfs_path2inode(m, path, 0).e)

CreateResult(m, path) == MakeEntry(m, path, ADVFS_REGULAR_FILE)

MkdirResult(m, path) == MakeEntry(m, path, ADVFS_DIR)

Removed(r) == Result(r.m, r.rc, "ok")

RmdirFrom(m, path, e) ==
    IF e = NULL THEN Result(m, -ENOENT, "ok")
    ELSE IF _get_inode(m, e).type # ADVFS_DIR THEN Result(m, -ENOTDIR, "ok")
    ELSE Removed(advfs_remove_inode(m, path))

RmdirResult(m, path) == RmdirFrom(m, path, advfs_path2inode(m, path, 0).e)

\* what advfs_unlink answers for a path that is no regular file
UnlinkNotFile == -ENOENT

UnlinkFrom(m, path, e) ==
    IF e = NULL THEN Result(m, -ENOENT, "ok")
    ELSE IF _get_inode(m, e).type # ADVFS_REGULAR_FILE THEN Result(m, UnlinkNotFile, "ok")
    ELSE Removed(advfs_remove_inode(m, path))

UnlinkResult(m, path) == UnlinkFrom(m, path, advfs_path2inode(m, path, 0).e)

ReadDone(r) ==
    IF ~r.ok THEN [rc |-> 0, st |-> "fault", buf |-> <<>>]
    ELSE [rc |-> Len(r.buf), st |-> "ok", buf |-> r.buf]

ReadFrom(m, e, size, offset, flags) ==
    IF e = NULL THEN [rc |-> -ENOENT, st |-> "ok", buf |-> <<>>]
    ELSE IF _get_inode(m, e).type # ADVFS_REGULAR_FILE
         THEN [rc |-> -EISDIR, st |-> "ok", buf |-> <<>>]
    ELSE IF flags # O_RDONLY /\ flags # O_RDWR
         THEN [rc |-> -EACCES, st |-> "ok", buf |-> <<>>]
    ELSE ReadDone(ReadLoop(m, _get_inode(m, e), offset, size, <<>>))

\* advfs_read: rc is the count returned, buf the bytes stored in the caller's buffer
ReadResult(m, path, size, offset, flags) ==
    ReadFrom(m, advfs_path2inode(m, path, 0).e, size, offset, flags)

WriteDone(w, size) ==
    IF w.st # "ok" THEN Result(w.m, 0, w.st) ELSE Result(w.m, size, "ok")

\* "if ( nsize > e->attr.size ) e->attr.size = nsize"
WriteGrow(m, e, nsize) ==
    IF nsize > _get_inode(m, e).size
    THEN PutInode(m, e, [_get_inode(m, e) EXCEPT !.size = nsize]) ELSE m

WriteResized(rs, e, buf, offset, j0) ==
    IF rs.rc # 0 THEN Result(rs.m, -EFAULT, "ok")
    ELSE WriteDone(WriteLoop(WriteGrow(rs.m, e, offset + Len(buf)), e, buf, offset,
                             Len(buf), j0),
                   Len(buf))

WriteFrom(m, e, buf, offset, flags, j0) ==
    IF e = NULL THEN Result(m, -ENOENT, "ok")
    ELSE IF _get_inode(m, e).type # ADVFS_REGULAR_FILE THEN Result(m, -EISDIR, "ok")
    ELSE IF flags # O_WRONLY /\ flags # O_RDWR THEN Result(m, -EACCES, "ok")
    ELSE IF Len(buf) <= 0 THEN Result(m, 0, "ok")
    ELSE WriteResized(
             _resize_block(m, e, (offset + Len(buf) + ADVFS_BLOCK_SIZE - 1)
                                     \div ADVFS_BLOCK_SIZE),
             e, buf, offset, j0)

\* advfs_write; j0 is what the uninitialised `j` holds when the while loop is
\* entered at a block-aligned offset
WriteResult(m, path, buf, offset, flags, j0) ==
    WriteFrom(m, advfs_path2inode(m, path, 0).e, buf, offset, flags, j0)

TruncateDone(w, e, size) ==
    IF w.st # "ok" THEN Result(w.m, 0, w.st)
    ELSE Result(PutInode(w.m, e, [_get_inode(w.m, e) EXCEPT !.size = size]), 0, "ok")

TruncateResized(rs, e, size) ==
    IF rs.rc # 0 THEN Result(rs.m, -EFAULT, "ok")
    ELSE TruncateDone(TruncLoop(rs.m, e, size), e, size)

TruncateFrom(m, e, size) ==
    IF e = NULL THEN Result(m, -ENOENT, "ok")
    ELSE IF _get_inode(m, e).type # ADVFS_REGULAR_FILE THEN Result(m, -EISDIR, "ok")
    ELSE TruncateResized(
             _resize_block(m, e, (size + ADVFS_BLOCK_SIZE - 1) \div ADVFS_BLOCK_SIZE),
             e, size)

TruncateResult(m, path, size) ==
    TruncateFrom(m, advfs_path2inode(m, path, 0).e, size)

ReadCalled(r) == Result(Img, r.rc, r.st)

\* a call is served while the process runs; the runs explored are those of
\* at most MaxOps calls
Running == status = "ok" /\ nops < MaxOps

advfs_create(path) == Running /\ Done("create", CreateResult(Img, path))

advfs_mkdir(path) == Running /\ Done("mkdir", MkdirResult(Img, path))

advfs_rmdir(path) == Running /\ Done("rmdir", RmdirResult(Img, path))

advfs_unlink(path) == Running /\ Done("unlink", UnlinkResult(Img, path))

advfs_read(path, size, offset, flags) ==
    Running /\ Done("read", ReadCalled(ReadResult(Img, path, size, offset, flags)))

advfs_write(path, buf, offset, flags, j0) ==
    Running /\ Done("write", WriteResult(Img, path, buf, offset, flags, j0))

advfs_truncate(path, size) ==
    Running /\ Done("truncate", TruncateResult(Img, path, size))

\* what advfs_statfs stores in the caller's struct statvfs
Statvfs(n_blocks, n_inodes, s) ==
    [f_blocks |-> n_blocks, f_bfree |-> n_blocks - s.n_block_used,
     f_files |-> n_inodes, f_ffree |-> n_inodes - s.n_inode_used]

StatfsResult(m) == Statvfs(NBlocks, ADVFS_INODE_NUM, m.sb)

\* advfs_statfs does not look at its path
advfs_statfs == Running /\ Done("statfs", Result(Img, 0, "ok"))

Offsets == 0 .. MaxOff
\* `j` is read before it is set only when the first chunk is block-aligned
StaleJ(offset) == IF offset % ADVFS_BLOCK_SIZE = 0 THEN 0 .. MaxStaleJ ELSE {0}

Next ==
    \/ \E path \in Paths : advfs_create(path)
    \/ \E path \in Paths : advfs_mkdir(path)
    \/ \E path \in Paths : advfs_rmdir(path)
    \/ \E path \in Paths : advfs_unlink(path)
    \/ \E path \in Paths, size \in 0 .. MaxLen, offset \in Offsets, flags \in Flags :
          advfs_read(path, size, offset, flags)
    \/ \E path \in Paths, buf \in Buffers, offset \in Offsets, flags \in Flags :
          \E j0 \in StaleJ(offset) : advfs_write(path, buf, offset, flags, j0)
    \/ \E path \in Paths, size \in 0 .. (MaxOff + MaxLen) : advfs_truncate(path, size)
    \/ advfs_statfs

Spec == Init /\ [][Next]_vars

\* ------------------------------------------------------------ ramblock.c: hash tree
\* what a walk of the tree returns when it runs around a cycle: the recursion
\* never ends and the process dies of it
Overflow == -3
\* the most nodes a walk of a tree inside the image can pass
WalkFuel == ADVFS_BLOCK_NUM

_get_block_mgt(m, b) == m.mgt[b]

RECURSIVE _block_search_rec(_, _, _, _)
_block_search_rec(m, parent, hash, fuel) ==
    IF parent = 0 THEN 0
    ELSE IF fuel = 0 \/ parent \notin AllBlocks THEN Overflow
    ELSE IF _get_block_mgt(m, parent).hash = hash THEN parent
    ELSE IF _get_block_mgt(m, parent).hash < hash
    THEN _block_search_rec(m, _get_block_mgt(m, parent).right, hash, fuel - 1)
    ELSE _block_search_rec(m, _get_block_mgt(m, parent).left, hash, fuel - 1)

_block_search(m, hash) == _block_search_rec(m, m.sb.block_mgt_root, hash, WalkFuel)

\* a uint64_t *parent: the superblock's block_mgt_root, or the left or right
\* field of the record of a node
RootPtr == [node |-> 0, side |-> "root"]
LeftOf(n) == [node |-> n, side |-> "left"]
RightOf(n) == [node |-> n, side |-> "right"]

Deref(m, p) ==
    IF p.side = "root" THEN m.sb.block_mgt_root
    ELSE IF p.side = "left" THEN m.mgt[p.node].left
    ELSE m.mgt[p.node].right

Store(m, p, v) ==
    IF p.side = "root" THEN [m EXCEPT !.sb.block_mgt_root = v]
    ELSE IF p.side = "left" THEN [m EXCEPT !.mgt[p.node].left = v]
    ELSE [m EXCEPT !.mgt[p.node].right = v]

RECURSIVE _block_add_rec(_, _, _, _)

\* cur is *parent
AddAt(m, parent, cur, b, fuel) ==
    IF cur = 0 THEN [m |-> Store(m, parent, b), rc |-> 0]
    ELSE IF fuel = 0 \/ cur \notin AllBlocks THEN [m |-> m, rc |-> Overflow]
    ELSE IF _get_block_mgt(m, cur).hash = _get_block_mgt(m, b).hash
    THEN [m |-> m, rc |-> -1]
    ELSE IF _get_block_mgt(m, cur).hash < _get_block_mgt(m, b).hash
    THEN _block_add_rec(m, RightOf(cur), b, fuel - 1)
    ELSE _block_add_rec(m, LeftOf(cur), b, fuel - 1)

_block_add_rec(m, parent, b, fuel) == AddAt(m, parent, Deref(m, parent), b, fuel)

_block_add(m, b) == _block_add_rec(m, RootPtr, b, WalkFuel)

RECURSIVE MaxPtr(_, _, _)
\* the while loop of _block_remove_max: the pointer to the rightmost node
MaxPtr(m, parent, fuel) ==
    IF fuel = 0 \/ Deref(m, parent) \notin AllBlocks THEN parent
    ELSE IF _get_block_mgt(m, Deref(m, parent)).right # 0
    THEN MaxPtr(m, RightOf(Deref(m, parent)), fuel - 1)
    ELSE parent

\* maxc = *parent; if ( 0 != mgt->left ) *parent = mgt->left
RemoveMaxAt(m, parent, maxc) ==
    [m |-> IF _get_block_mgt(m, maxc).left # 0
           THEN Store(m, parent, _get_block_mgt(m, maxc).left) ELSE m,
     maxc |-> maxc]

RemoveMaxFrom(m, parent) == RemoveMaxAt(m, parent, Deref(m, parent))

_block_remove_max(m, parent) == RemoveMaxFrom(m, MaxPtr(m, parent, WalkFuel))

\* tmp->left = mgt->left; tmp->right = mgt->right
PullMaxLinks(m, b, maxc) ==
    [m EXCEPT !.mgt[maxc].left = m.mgt[b].left, !.mgt[maxc].right = m.mgt[b].right]

\* "Both children": r is what _block_remove_max left
PullMax(r, parent, b) ==
    [m |-> PullMaxLinks(Store(r.m, parent, r.maxc), b, r.maxc), rc |-> 0]

\* the second test of the found node: the source tests mgt->left again
OnlyRightChild(e) == 0 # e.left

\* "Found, then pull one of the children"
DeleteFound(m, parent, b, e) ==
    IF 0 # e.left /\ 0 # e.right THEN PullMax(_block_remove_max(m, LeftOf(b)), parent, b)
    ELSE IF 0 # e.left THEN [m |-> Store(m, parent, e.left), rc |-> 0]
    ELSE IF OnlyRightChild(e) THEN [m |-> Store(m, parent, e.right), rc |-> 0]
    ELSE [m |-> Store(m, parent, 0), rc |-> 0]

RECURSIVE _block_delete_rec(_, _, _, _)

DeleteAt(m, parent, cur, b, fuel) ==
    IF cur = 0 THEN [m |-> m, rc |-> -1]
    ELSE IF cur = b THEN DeleteFound(m, parent, b, _get_block_mgt(m, b))
    ELSE IF fuel = 0 \/ cur \notin AllBlocks THEN [m |-> m, rc |-> Overflow]
    ELSE IF _get_block_mgt(m, cur).hash < _get_block_mgt(m, b).hash
    THEN _block_delete_rec(m, RightOf(cur), b, fuel - 1)
    ELSE IF _get_block_mgt(m, cur).hash > _get_block_mgt(m, b).hash
    THEN _block_delete_rec(m, LeftOf(cur), b, fuel - 1)
    ELSE [m |-> m, rc |-> -1]

_block_delete_rec(m, parent, b, fuel) == DeleteAt(m, parent, Deref(m, parent), b, fuel)

_block_delete(m, b) == _block_delete_rec(m, RootPtr, b, WalkFuel)

\* ------------------------------------------------------------ ramblock.c: raw blocks
\* the cells advfs_read_raw_block copies: those of a data block, or words of
\* the inode and block-management tables
RawCells(m, b) == IF b \in DataBlocks THEN m.blk[b] ELSE [c \in Cells |-> MetaCell]

\* how advfs_read_raw_block and advfs_write_raw_block end for block number
\* pos: assert( pos > 0 ), then a copy that must stay inside the image
RawAccess(pos) ==
    IF pos = 0 THEN "abort" ELSE IF pos \notin AllBlocks THEN "fault" ELSE "ok"

advfs_alloc_block(m) ==
    IF m.sb.freelist = 0 THEN [m |-> m, b |-> 0]
    ELSE [m |-> [m EXCEPT !.sb.freelist = RawCells(m, m.sb.freelist)[0],
                          !.sb.n_block_used = UInc(m.sb.n_block_used)],
          b |-> m.sb.freelist]

\* buf is a stack array of which only fl->next is set: the other cells are
\* what the stack held (junk)
advfs_free_block(m, b, junk) ==
    [m EXCEPT !.blk[b] = [c \in Cells |-> IF c = 0 THEN m.sb.freelist ELSE junk],
              !.sb.freelist = b,
              !.sb.n_block_used = UDec(m.sb.n_block_used)]

\* ------------------------------------------------------------ ramblock.c: block map
RECURSIVE ResolveChain(_, _, _)
\* the chain walk of _resolve_block_map from the chain block b
ResolveChain(m, b, pos) ==
    IF RawAccess(b) # "ok" THEN [st |-> RawAccess(b), b |-> 0]
    ELSE IF pos >= ChainK THEN ResolveChain(m, RawCells(m, b)[ChainK], pos - ChainK)
    ELSE [st |-> "ok", b |-> RawCells(m, b)[pos]]

_resolve_block_map(m, inr, pos) ==
    IF pos < ADVFS_INODE_BLOCKPTR - 1 THEN [st |-> "ok", b |-> m.inodes[inr].blocks[pos]]
    ELSE ResolveChain(m, m.inodes[inr].blocks[ADVFS_INODE_BLOCKPTR - 1],
                      pos - (ADVFS_INODE_BLOCKPTR - 1))

\* an update that never follows the chain: the slot of the first chain block
C27_UpdateFirstHop(m, b, pos, pb) ==
    IF b \in DataBlocks THEN [st |-> "ok", m |-> [m EXCEPT !.blk[b][pos % ChainK] = pb]]
    ELSE [st |-> RawAccess(b), m |-> m]

RECURSIVE UpdateChain(_, _, _, _)
UpdateChain(m, b, pos, pb) ==
    IF RawAccess(b) # "ok" THEN [st |-> RawAccess(b), m |-> m]
    ELSE IF pos >= ChainK THEN UpdateChain(m, RawCells(m, b)[ChainK], pos - ChainK, pb)
    ELSE IF b \in DataBlocks THEN [st |-> "ok", m |-> [m EXCEPT !.blk[b][pos] = pb]]
    ELSE [st |-> "fault", m |-> m]

_update_block_map(m, inr, pos, pb) ==
    IF pos < ADVFS_INODE_BLOCKPTR - 1
    THEN [st |-> "ok", m |-> [m EXCEPT !.inodes[inr].blocks[pos] = pb]]
    ELSE UpdateChain(m, m.inodes[inr].blocks[ADVFS_INODE_BLOCKPTR - 1],
                     pos - (ADVFS_INODE_BLOCKPTR - 1), pb)

\* ------------------------------------------------------------ ramblock.c: block engine
ReadRaw(m, b) ==
    IF RawAccess(b) # "ok" THEN [st |-> RawAccess(b), block |-> [c \in Cells |-> 0]]
    ELSE [st |-> "ok", block |-> RawCells(m, b)]

ReadResolved(m, r) ==
    IF r.st # "ok" THEN [st |-> r.st, block |-> [c \in Cells |-> 0]]
    ELSE IF r.b = 0 THEN [st |-> "ok", block |-> [c \in Cells |-> 0]]
    ELSE ReadRaw(m, r.b)

advfs_read_block(m, inr, pos) == ReadResolved(m, _resolve_block_map(m, inr, pos))

\* "Release this block": d is what _block_delete left
Release(d, cur, junk) ==
    IF d.rc = Overflow THEN Result(d.m, 0, "fault")
    ELSE Result(advfs_free_block(d.m, cur, junk), 0, "ok")

\* after advfs_write_block_mgt of the decremented record
Unreferenced(m, cur, junk) ==
    IF m.mgt[cur].ref = 0 THEN Release(_block_delete(m, cur), cur, junk)
    ELSE Result(m, 0, "ok")

\* "Unreference the old block": mgt.ref--, and the release at 0
Unreference(m, cur, junk) ==
    IF cur \notin AllBlocks THEN Result(m, 0, "fault")
    ELSE Unreferenced([m EXCEPT !.mgt[cur].ref = UDec(@)], cur, junk)

\* "Referencde the new block": mgt.ref++ on the block found
Reference(u, b) ==
    IF u.st # "ok" THEN u
    ELSE Result([u.m EXCEPT !.mgt[b].ref = UInc(@)], 0, "ok")

\* "Found"
WriteFound(m, cur, b, junk) ==
    IF cur = b THEN Result(m, 0, "ok")
    ELSE IF cur # 0 THEN Reference(Unreference(m, cur, junk), b)
    ELSE Reference(Result(m, 0, "ok"), b)

Mapped(r) == Result(r.m, 0, r.st)

\* "Update the block map"
WriteMap(u, inr, pos, b) ==
    IF u.st # "ok" THEN u ELSE Mapped(_update_block_map(u.m, inr, pos, b))

\* the record of the new block as advfs_write_block leaves it in the table:
\* the local mgt (hash, ref = 1, left = right = 0) is never written back
NewBlockMgt(old, hash) == old

\* "Add to the tree", then the unreference of the old block
WriteAdded(d, inr, pos, cur, b, junk) ==
    IF d.rc = Overflow THEN Result(d.m, 0, "fault")
    ELSE IF cur # 0 THEN WriteMap(Unreference(d.m, cur, junk), inr, pos, b)
    ELSE WriteMap(Result(d.m, 0, "ok"), inr, pos, b)

\* advfs_write_raw_block(advfs, buf, b) and the record of b
WriteRaw(m, b, buf) ==
    [m EXCEPT !.blk[b] = buf, !.mgt[b] = NewBlockMgt(@, SHA384(buf))]

\* "Not found, then allocate a new block, then write the content": a is what
\* advfs_alloc_block left
WriteNew(a, inr, buf, pos, cur, junk) ==
    IF a.b = 0 THEN Result(a.m, 0, "abort")
    ELSE WriteAdded(_block_add(WriteRaw(a.m, a.b, buf), a.b), inr, pos, cur, a.b, junk)

\* "Check the duplication": b is what _block_search found
WriteSearched(m, inr, buf, pos, cur, b, junk) ==
    IF b = Overflow THEN Result(m, 0, "fault")
    ELSE IF b # 0 THEN WriteFound(m, cur, b, junk)
    ELSE WriteNew(advfs_alloc_block(m), inr, buf, pos, cur, junk)

WriteResolved(m, inr, buf, pos, r, junk) ==
    IF r.st # "ok" THEN Result(m, 0, r.st)
    ELSE WriteSearched(m, inr, buf, pos, r.b, _block_search(m, SHA384(buf)), junk)

advfs_write_block(m, inr, buf, pos, junk) ==
    WriteResolved(m, inr, buf, pos, _resolve_block_map(m, inr, pos), junk)

UnrefResolved(m, r, junk) ==
    IF r.st # "ok" THEN Result(m, 0, r.st)
    ELSE IF r.b # 0 THEN Unreference(m, r.b, junk)
    ELSE Result(m, 0, "ok")

advfs_unref_block(m, inr, pos, junk) ==
    UnrefResolved(m, _resolve_block_map(m, inr, pos), junk)

\* ------------------------------------------------------------ init.c
\* advfs_init(): the root directory is inode 0 of the inode table
InitInodes(g) ==
    [i \in InodeNrs |-> IF i = 0 THEN RootInode(g) ELSE FreshInode(g)]

InitBlock ==
    \E g \in Garbage :
        /\ sb = FreshSuper(g)
        /\ root = FreshInode(g)
        /\ inodes = InitInodes(g)
        /\ mgt = FreshMgt(g)
        /\ blk = FreshBlocks(g)
        /\ status = "ok"
        /\ op = "init"
        /\ ret = 0
        /\ nops = 0
        /\ thr = [t \in Threads |-> IdleThread]

\* the blocks written through the engine: every cell holds the same byte
Payloads == {[c \in Cells |-> v] : v \in 1 .. MaxPayload}
Positions == 0 .. MaxPos

ReadBlockCalled(r) == Result(Img, 0, r.st)

WriteBlock(inr, buf, pos, junk) ==
    Running /\ Done("write_block", advfs_write_block(Img, inr, buf, pos, junk))

ReadBlock(inr, pos) ==
    Running /\ Done("read_block", ReadBlockCalled(advfs_read_block(Img, inr, pos)))

UnrefBlock(inr, pos, junk) ==
    Running /\ Done("unref_block", advfs_unref_block(Img, inr, pos, junk))

NextBlock ==
    \/ \E inr \in InodeNrs, buf \in Payloads, pos \in Positions, junk \in Garbage :
          WriteBlock(inr, buf, pos, junk)
    \/ \E inr \in InodeNrs, pos \in Positions : ReadBlock(inr, pos)
    \/ \E inr \in InodeNrs, pos \in Positions, junk \in Garbage : UnrefBlock(inr, pos, junk)

SpecBlock == InitBlock /\ [][NextBlock]_vars

\* ------------------------------------------------------------ observations
\* the inodes in use: the root directory and the inodes of the table whose
\* type is not ADVFS_UNUSED
LiveInodes == {ROOT} \cup {i \in InodeNrs : inodes[i].type # ADVFS_UNUSED}

\* the (inode, logical index) pairs of the block maps that resolve to block b
Mappings(b) ==
    UNION {{<<nr, i>> : i \in {k \in 0 .. (_get_inode(Img, nr).n_blocks - 1) :
                                  BlockOf(Img, _get_inode(Img, nr), k) = b}} :
           nr \in LiveInodes}

RECURSIVE FreeWalk(_, _, _)
\* the free list from block b on, as the sequence of its blocks
FreeWalk(m, b, fuel) ==
    IF b = 0 \/ fuel = 0 \/ b \notin DataBlocks THEN <<>>
    ELSE <<b>> \o FreeWalk(m, m.blk[b][0], fuel - 1)

FreeListOf(m) == FreeWalk(m, m.sb.freelist, NBlocks + 1)
FreeList == FreeListOf(Img)
FreeSet(m) == {FreeListOf(m)[k] : k \in 1 .. Len(FreeListOf(m))}

RECURSIVE ChainSet(_, _, _)
\* the indirect chain blocks of a map that holds `remaining` more slots from
\* chain block b on
ChainSet(m, b, remaining) ==
    IF remaining <= 0 \/ b \notin DataBlocks THEN {}
    ELSE {b} \cup ChainSet(m, m.blk[b][ChainK], remaining - ChainK)

ChainBlocks(nr) ==
    ChainSet(Img, _get_inode(Img, nr).blocks[ADVFS_INODE_BLOCKPTR - 1],
             _get_inode(Img, nr).n_blocks - (ADVFS_INODE_BLOCKPTR - 1))

ZeroBlock == [c \in Cells |-> 0]

RECURSIVE ChainHole(_, _, _)
\* the slot for index pos of the chain from block b on is 0, or the chain
\* ends (no indirect block) before it
ChainHole(m, b, pos) ==
    IF b = 0 THEN TRUE
    ELSE IF b \notin DataBlocks THEN FALSE
    ELSE IF pos >= ChainK THEN ChainHole(m, m.blk[b][ChainK], pos - ChainK)
    ELSE m.blk[b][pos] = 0

\* the block-map slot of logical index pos of inode e is a hole
IsHole(m, e, pos) ==
    IF pos < ADVFS_INODE_BLOCKPTR - 1 THEN e.blocks[pos] = 0
    ELSE ChainHole(m, e.blocks[ADVFS_INODE_BLOCKPTR - 1], pos - (ADVFS_INODE_BLOCKPTR - 1))

\* the slots of the block engine
SlotIds == InodeNrs \X Positions

\* the data blocks in use (off the free list) that hold the payload
Holding(m, buf) == {b \in DataBlocks \ FreeSet(m) : m.blk[b] = buf}

RECURSIVE TreeWalk(_, _, _)
\* the nodes a walk of the hash tree from node n visits, in order
TreeWalk(m, n, fuel) ==
    IF n = 0 \/ fuel = 0 \/ n \notin AllBlocks THEN <<>>
    ELSE <<n>> \o TreeWalk(m, m.mgt[n].left, fuel - 1)
               \o TreeWalk(m, m.mgt[n].right, fuel - 1)

Tree == TreeWalk(Img, sb.block_mgt_root, WalkFuel)

\* ------------------------------------------------------------ claims
\* C1: in every reachable state the refcount in the block-management record
\* of each data block equals the number of distinct (inode, logical index)
\* pairs whose block-map slot resolves to the block.
C1_RefcountIsMappingCount ==
    \A b \in DataBlocks : mgt[b].ref = Cardinality(Mappings(b))

\* a create has returned 0 and the root directory's map holds a block whose
\* refcount is 0
C1_MappedBlockWithRefZero ==
    /\ op = "create" /\ ret = 0 /\ status = "ok"
    /\ \E b \in DataBlocks : Mappings(b) # {} /\ mgt[b].ref = 0

\* C2: two block writes of one payload to two distinct (inode, logical index)
\* pairs, in a state where no block in use holds the payload, leave exactly
\* one physical block holding it, both slots resolving to it, its refcount 2.
C2_IdenticalPayloadsShareOneBlock ==
    \A s1 \in SlotIds, s2 \in SlotIds, buf \in Payloads :
        LET w1 == advfs_write_block(Img, s1[1], buf, s1[2], 0)
            w2 == advfs_write_block(w1.m, s2[1], buf, s2[2], 0)
            b1 == _resolve_block_map(w2.m, s1[1], s1[2]).b
            b2 == _resolve_block_map(w2.m, s2[1], s2[2]).b
        IN (/\ status = "ok" /\ s1 # s2 /\ Holding(Img, buf) = {}
            /\ w1.st = "ok" /\ w2.st = "ok")
           => /\ b1 = b2 /\ b1 \in DataBlocks
              /\ w2.m.mgt[b1].ref = 2
              /\ Holding(w2.m, buf) = {b1}

\* a write_block has returned and two distinct slots of inodes resolve to two
\* different blocks in use that hold the same content
C2_TwoBlocksSameContent ==
    /\ op = "write_block" /\ status = "ok"
    /\ \E i1 \in InodeNrs, i2 \in InodeNrs :
          /\ i1 # i2
          /\ inodes[i1].blocks[0] \in DataBlocks /\ inodes[i2].blocks[0] \in DataBlocks
          /\ inodes[i1].blocks[0] # inodes[i2].blocks[0]
          /\ blk[inodes[i1].blocks[0]] = blk[inodes[i2].blocks[0]]
          /\ inodes[i1].blocks[0] \notin FreeSet(Img)
          /\ inodes[i2].blocks[0] \notin FreeSet(Img)

\* C3: copy-on-write.  Once two slots have been written with one payload X
\* (they share its block) and one of them is overwritten with a different
\* payload Y, a read through the other slot returns X, and the block of X and
\* the block of Y each have refcount 1.
C3_CopyOnWrite ==
    \A s1 \in SlotIds, s2 \in SlotIds, X \in Payloads, Y \in Payloads :
        LET w1 == advfs_write_block(Img, s1[1], X, s1[2], 0)
            w2 == advfs_write_block(w1.m, s2[1], X, s2[2], 0)
            w3 == advfs_write_block(w2.m, s2[1], Y, s2[2], 0)
            r == advfs_read_block(w3.m, s1[1], s1[2])
            b1 == _resolve_block_map(w3.m, s1[1], s1[2]).b
            b2 == _resolve_block_map(w3.m, s2[1], s2[2]).b
        IN (/\ status = "ok" /\ s1 # s2 /\ X # Y
            /\ Holding(Img, X) = {} /\ Holding(Img, Y) = {}
            /\ w1.st = "ok" /\ w2.st = "ok" /\ w3.st = "ok")
           => /\ r.st = "ok" /\ r.block = X
              /\ b1 \in DataBlocks /\ b2 \in DataBlocks /\ b1 # b2
              /\ w3.m.mgt[b1].ref = 1 /\ w3.m.mgt[b2].ref = 1

\* a write_block has returned, and a slot resolves to a block in use whose
\* refcount is not 1
C3_WrittenBlockRefNotOne ==
    /\ op = "write_block" /\ status = "ok"
    /\ \E i \in InodeNrs :
          /\ inodes[i].blocks[0] \in DataBlocks \ FreeSet(Img)
          /\ mgt[inodes[i].blocks[0]].ref # 1

\* C4: read/write round-trip.  For any regular file, any offset and any
\* non-empty buffer, a write that returns the buffer's length followed by a
\* read of that length at that offset returns the length and the buffer.
C4_ReadWriteRoundTrip ==
    \A path \in Paths, offset \in Offsets, buf \in Buffers :
        \A j0 \in StaleJ(offset) :
            LET w == WriteResult(Img, path, buf, offset, O_RDWR, j0)
                r == ReadResult(w.m, path, Len(buf), offset, O_RDWR)
            IN (/\ status = "ok" /\ Len(buf) > 0
                /\ w.st = "ok" /\ w.rc = Len(buf))
               => /\ r.st = "ok" /\ r.rc = Len(buf) /\ r.buf = buf

\* a write has returned the length it was given
C4_WriteReturned ==
    op = "write" /\ status = "ok" /\ ret > 0

\* C5: hash index bijection.  After any operation a walk of the hash tree
\* from the superblock's root visits exactly the data blocks whose refcount
\* is >= 1, each once, and no two visited nodes carry the same hash.
C5_HashIndexBijection ==
    (status = "ok" /\ nops > 0)
    => /\ {Tree[k] : k \in 1 .. Len(Tree)} = {b \in DataBlocks : mgt[b].ref >= 1}
       /\ \A j \in 1 .. Len(Tree), k \in 1 .. Len(Tree) :
              j # k => /\ Tree[j] # Tree[k]
                       /\ mgt[Tree[j]].hash # mgt[Tree[k]].hash

\* a write_block has returned and the root of the hash tree is a data block
\* whose refcount is 0
C5_TreeNodeWithRefZero ==
    /\ op = "write_block" /\ status = "ok"
    /\ sb.block_mgt_root \in DataBlocks
    /\ mgt[sb.block_mgt_root].ref = 0

\* C6: space conservation.  In every reachable state n_block_used plus the
\* length of the free list is the number of data blocks of the image, failed
\* allocations and resizes included.
C6_SpaceConservation ==
    sb.n_block_used + Len(FreeList) = NBlocks

\* a resize has failed for want of a data block and has given the chain block
\* it had taken back to the free list
C6_FailedResize ==
    /\ op \in {"write", "truncate"} /\ ret = -EFAULT
    /\ sb.n_block_used > 0 /\ sb.freelist # 0

\* C7: block partition.  In every reachable state every data block is in
\* exactly one of: the free list, the blocks the map of an inode in use
\* resolves to, the indirect chain blocks of an inode in use; no block is in
\* two of them and no allocated block is outside all of them.
C7_BlockPartition ==
    \A b \in DataBlocks :
        LET free == b \in FreeSet(Img)
            used == Mappings(b) # {}
            chain == \E nr \in LiveInodes : b \in ChainBlocks(nr)
        IN /\ free \/ used \/ chain
           /\ ~(free /\ used) /\ ~(free /\ chain) /\ ~(used /\ chain)

\* a truncate or an unlink has returned 0 and a data block is neither free
\* nor reachable from the map of an inode in use
C7_LeakedBlock ==
    /\ op \in {"truncate", "unlink"} /\ ret = 0 /\ status = "ok"
    /\ \E b \in DataBlocks :
          /\ b \notin FreeSet(Img)
          /\ Mappings(b) = {}
          /\ \A nr \in LiveInodes : b \notin ChainBlocks(nr)

\* C8: in every reachable state the superblock's n_inode_used equals the
\* number of inodes of the table whose type is not ADVFS_UNUSED.
C8_InodeUsedCount ==
    sb.n_inode_used = Cardinality({i \in InodeNrs : inodes[i].type # ADVFS_UNUSED})

\* a create or a mkdir has returned 0 and n_inode_used is still 0
C8_CreatedButUncounted ==
    /\ op \in {"create", "mkdir"} /\ ret = 0
    /\ sb.n_inode_used = 0
    /\ \E i \in InodeNrs : inodes[i].type # ADVFS_UNUSED

\* C9: idempotent identical write.  Writing one payload to one (inode,
\* logical index) twice succeeds both times, and the second write leaves
\* n_block_used, the free list, the block map and every refcount as the first
\* write left them.
C9_IdenticalWriteIdempotent ==
    \A s \in SlotIds, buf \in Payloads :
        LET w1 == advfs_write_block(Img, s[1], buf, s[2], 0)
            w2 == advfs_write_block(w1.m, s[1], buf, s[2], 0)
        IN (status = "ok" /\ w1.st = "ok")
           => /\ w2.st = "ok"
              /\ w2.m.sb.n_block_used = w1.m.sb.n_block_used
              /\ FreeListOf(w2.m) = FreeListOf(w1.m)
              /\ w2.m.inodes = w1.m.inodes
              /\ \A b \in AllBlocks : w2.m.mgt[b].ref = w1.m.mgt[b].ref

\* a write_block has returned with more than one block in use
C9_SecondBlockTaken ==
    op = "write_block" /\ status = "ok" /\ sb.n_block_used > 1

\* C10: hole-reads-zero.  For every regular file and every logical index
\* whose block-map slot is 0 (a direct slot, a slot of the indirect chain, or
\* no indirect block at all), _read_block returns an all-zero block.
C10_HoleReadsZero ==
    \A nr \in InodeNrs, pos \in Positions :
        (/\ status = "ok"
         /\ inodes[nr].type = ADVFS_REGULAR_FILE
         /\ IsHole(Img, inodes[nr], pos))
        => /\ _read_block(Img, inodes[nr], pos).ok
           /\ _read_block(Img, inodes[nr], pos).block = ZeroBlock

\* a read of a regular file whose first slot is a hole has returned bytes
C10_ReadOfHole ==
    /\ op = "read" /\ status = "ok" /\ ret > 0
    /\ \E nr \in InodeNrs :
          inodes[nr].type = ADVFS_REGULAR_FILE /\ inodes[nr].blocks[0] = 0

\* ------------------------------------------------------------ main.c: readdir
RECURSIVE ReaddirLoop(_, _, _, _)
\* for ( i = 0; i < size; i++ ) { assert( i < 512 ); filler(inodes[block[i]].name) }
\* with block the directory's blocks[0]
ReaddirLoop(m, e, i, out) ==
    IF i >= e.size THEN [rc |-> 0, st |-> "ok", names |-> out]
    ELSE IF i >= PtrsPerBlock THEN [rc |-> 0, st |-> "abort", names |-> out]
    ELSE IF _get_block(m, e.blocks[0])[i] \notin InodeNrs
    THEN [rc |-> 0, st |-> "fault", names |-> out]
    ELSE ReaddirLoop(m, e, i + 1,
                     Append(out, m.inodes[_get_block(m, e.blocks[0])[i]].name))

ReaddirFrom(m, e) ==
    IF e = NULL THEN [rc |-> -ENOENT, st |-> "ok", names |-> <<>>]
    ELSE IF _get_inode(m, e).type # ADVFS_DIR
    THEN [rc |-> -ENOENT, st |-> "ok", names |-> <<>>]
    ELSE ReaddirLoop(m, _get_inode(m, e), 0, <<".", "..">>)

\* advfs_readdir: the names handed to the filler
ReaddirResult(m, path) == ReaddirFrom(m, advfs_path2inode(m, path, 0).e)

\* ------------------------------------------------------------ observations: directories
\* the inode number in logical slot i of directory d
ChildAt(m, d, i) == _get_inode_in_dir(m, _get_inode(m, d), i)

\* the children of directory d: its slots 0 .. size - 1
Children(m, d) == {ChildAt(m, d, i) : i \in 0 .. (_get_inode(m, d).size - 1)}

RECURSIVE TreeDirs(_, _, _)
\* the directories of the tree under directory d
TreeDirs(m, d, fuel) ==
    IF fuel = 0 THEN {d}
    ELSE {d} \cup UNION {TreeDirs(m, c, fuel - 1) :
                           c \in {k \in Children(m, d) \cap InodeNrs :
                                     m.inodes[k].type = ADVFS_DIR}}

Directories == TreeDirs(Img, ROOT, ADVFS_INODE_NUM)

\* the names a path component can take
Names == {"a", "b"}

\* ------------------------------------------------------------ claims, continued
\* C11: directory compaction.  After any sequence of create, mkdir, unlink and
\* rmdir every directory of the tree has in its slots 0 .. size - 1 valid,
\* pairwise distinct numbers of inodes whose type is not ADVFS_UNUSED, and a
\* lookup or a readdir reaches no other slot: a lookup in the directory
\* answers with one of these children or with nothing, and readdir lists "."
\* and ".." and the names of these children, in order.
C11_DirectoryCompaction ==
    status = "ok" =>
    \A d \in Directories :
        LET e == _get_inode(Img, d)
        IN /\ e.size \in 0 .. ADVFS_MAX_CHILDREN
           /\ \A i \in 0 .. (e.size - 1) :
                 /\ ChildAt(Img, d, i) \in InodeNrs
                 /\ inodes[ChildAt(Img, d, i)].type # ADVFS_UNUSED
           /\ \A i \in 0 .. (e.size - 1), j \in 0 .. (e.size - 1) :
                 i # j => ChildAt(Img, d, i) # ChildAt(Img, d, j)
           /\ \A name \in Names :
                 _path2inode_rec(Img, d, <<name>>, 0).e \in Children(Img, d) \cup {NULL}
           /\ ReaddirLoop(Img, e, 0, <<>>) =
                 [rc |-> 0, st |-> "ok",
                  names |-> [i \in 1 .. e.size |-> inodes[ChildAt(Img, d, i - 1)].name]]

\* an unlink or a rmdir has removed the first of two children of the root
\* directory: the root has one child left, and the slot behind it still holds
\* an inode number
C11_RemovedFirstOfTwo ==
    /\ op \in {"unlink", "rmdir"} /\ ret = 0 /\ status = "ok"
    /\ root.size = 1 /\ root.n_blocks = 1
    /\ ChildAt(Img, ROOT, 0) \in InodeNrs
    /\ _get_block(Img, root.blocks[0])[1] \in InodeNrs
    /\ inodes[ChildAt(Img, ROOT, 0)].type # ADVFS_UNUSED

\* C12: rmdir of a directory whose size is > 0 fails with ENOTEMPTY and
\* removes nothing (the image is as it was); rmdir of a directory that has no
\* child (its last child has been unlinked) returns 0.
C12_RmdirNotEmpty ==
    status = "ok" =>
    \A path \in Paths :
        LET e == advfs_path2inode(Img, path, 0).e
        IN (e # NULL /\ e # ROOT /\ _get_inode(Img, e).type = ADVFS_DIR)
           => IF _get_inode(Img, e).size > 0
              THEN RmdirResult(Img, path) = Result(Img, -ENOTEMPTY, "ok")
              ELSE RmdirResult(Img, path).rc = 0

\* a rmdir of a directory that holds a file has returned ENOTEMPTY
C12_RmdirRefused ==
    /\ op = "rmdir" /\ ret = -ENOTEMPTY
    /\ \E i \in InodeNrs : inodes[i].type = ADVFS_DIR /\ inodes[i].size > 0

\* the blocks a write of the buffer at the offset needs the file to have
BlocksFor(buf, offset) == (offset + Len(buf) + ADVFS_BLOCK_SIZE - 1) \div ADVFS_BLOCK_SIZE

\* C13: when the free list is empty, a write that needs a new physical block
\* returns EDQUOT, the process keeps running, and afterwards n_block_used
\* plus the length of the free list is still the number of data blocks.
C13_FullImageWriteEDQUOT ==
    status = "ok" =>
    \A path \in Paths, buf \in Buffers, offset \in Offsets :
        \A j0 \in StaleJ(offset) :
            LET e == advfs_path2inode(Img, path, 0).e
                w == WriteResult(Img, path, buf, offset, O_RDWR, j0)
            IN (/\ sb.freelist = 0
                /\ e # NULL /\ e # ROOT
                /\ Len(buf) > 0
                /\ inodes[e].type = ADVFS_REGULAR_FILE
                /\ BlocksFor(buf, offset) > inodes[e].n_blocks)
               => /\ w.rc = -EDQUOT
                  /\ w.st = "ok"
                  /\ w.m.sb.n_block_used + Len(FreeListOf(w.m)) = NBlocks

\* a write has been refused while the free list was empty and every data
\* block was in use
C13_WriteRefusedOnFullImage ==
    /\ op = "write" /\ ret = -EFAULT
    /\ sb.freelist = 0 /\ sb.n_block_used = NBlocks

\* ------------------------------------------------------------ main.c: handlers in threads
\* fuse_main() runs the handlers of advfs_oper in the threads of the host; a
\* handler that grows a file by a chain block and a data block runs
\* _increase_block's b2 = _alloc_block(), b1 = _alloc_block() and, when b1 is 0,
\* _free_block(b2).  One step is one access of the shared image.
Shared == <<root, inodes, mgt, status, op, ret, nops>>

\* the host calls the handler: nothing in advfs_oper or the handlers waits for
\* another thread
Dispatch(t) ==
    /\ thr[t].pc = "idle" /\ thr[t].calls < MaxCalls
    /\ thr' = [thr EXCEPT ![t].pc = "alloc_head", ![t].site = 2,
                          ![t].b2 = 0, ![t].b1 = 0, ![t].calls = @ + 1]
    /\ UNCHANGED <<sb, blk>> /\ UNCHANGED Shared

\* _alloc_block returned 0: at site 2 the handler returns, at site 1 it frees b2
AllocFailed(t) ==
    IF thr[t].site = 2 THEN Returned(thr, t)
    ELSE [thr EXCEPT ![t].pc = "free_link"]

\* b = advfs->superblock->freelist; if ( 0 == b ) return 0
AllocHead(t) ==
    /\ thr[t].pc = "alloc_head"
    /\ thr' = IF sb.freelist = 0 THEN AllocFailed(t)
              ELSE IF thr[t].site = 2
              THEN [thr EXCEPT ![t].pc = "alloc_unlink", ![t].b2 = sb.freelist]
              ELSE [thr EXCEPT ![t].pc = "alloc_unlink", ![t].b1 = sb.freelist]
    /\ UNCHANGED <<sb, blk>> /\ UNCHANGED Shared

\* the block the _alloc_block call of the thread has taken
Taken(t) == IF thr[t].site = 2 THEN thr[t].b2 ELSE thr[t].b1

\* advfs->superblock->freelist = fl->next
AllocUnlink(t) ==
    /\ thr[t].pc = "alloc_unlink"
    /\ sb' = [sb EXCEPT !.freelist = _get_block(Img, Taken(t))[0]]
    /\ thr' = [thr EXCEPT ![t].pc = "alloc_load"]
    /\ UNCHANGED blk /\ UNCHANGED Shared

\* n_block_used++: the load
AllocLoad(t) ==
    /\ thr[t].pc = "alloc_load"
    /\ thr' = [thr EXCEPT ![t].pc = "alloc_store", ![t].n = sb.n_block_used]
    /\ UNCHANGED <<sb, blk>> /\ UNCHANGED Shared

\* n_block_used++: the store; then block[...] = b, and after b1 the handler returns
AllocStore(t) ==
    /\ thr[t].pc = "alloc_store"
    /\ sb' = [sb EXCEPT !.n_block_used = UInc(thr[t].n)]
    /\ thr' = IF thr[t].site = 2
              THEN [thr EXCEPT ![t].pc = "alloc_head", ![t].site = 1]
              ELSE Returned([thr EXCEPT ![t].own = @ \cup {thr[t].b2, thr[t].b1}], t)
    /\ UNCHANGED blk /\ UNCHANGED Shared

\* fl->next = advfs->superblock->freelist
FreeLink(t) ==
    /\ thr[t].pc = "free_link"
    /\ blk' = [blk EXCEPT ![thr[t].b2][0] = sb.freelist]
    /\ thr' = [thr EXCEPT ![t].pc = "free_head"]
    /\ UNCHANGED sb /\ UNCHANGED Shared

\* advfs->superblock->freelist = b
FreeHead(t) ==
    /\ thr[t].pc = "free_head"
    /\ sb' = [sb EXCEPT !.freelist = thr[t].b2]
    /\ thr' = [thr EXCEPT ![t].pc = "free_load"]
    /\ UNCHANGED blk /\ UNCHANGED Shared

\* n_block_used--: the load
FreeLoad(t) ==
    /\ thr[t].pc = "free_load"
    /\ thr' = [thr EXCEPT ![t].pc = "free_store", ![t].n = sb.n_block_used]
    /\ UNCHANGED <<sb, blk>> /\ UNCHANGED Shared

\* n_block_used--: the store; the handler returns
FreeStore(t) ==
    /\ thr[t].pc = "free_store"
    /\ sb' = [sb EXCEPT !.n_block_used = UDec(thr[t].n)]
    /\ thr' = Returned(thr, t)
    /\ UNCHANGED blk /\ UNCHANGED Shared

NextThreads ==
    \E t \in Threads :
        \/ Dispatch(t)
        \/ AllocHead(t)
        \/ AllocUnlink(t)
        \/ AllocLoad(t)
        \/ AllocStore(t)
        \/ FreeLink(t)
        \/ FreeHead(t)
        \/ FreeLoad(t)
        \/ FreeStore(t)

SpecThreads == Init /\ [][NextThreads]_vars

\* the thread is inside a handler
InHandler(t) == thr[t].pc # "idle"

\* C14: operations the host dispatches concurrently are serialised under one
\* global mutual-exclusion region: no two threads are inside a handler at the
\* same time, so the image accesses of one come all before or all after those
\* of the other.
C14_HandlersSerialised ==
    \A t1 \in Threads, t2 \in Threads :
        t1 # t2 => ~(InHandler(t1) /\ InHandler(t2))

\* two handlers have returned and each has put the same block into the block
\* map of its file
C14_BlockGivenTwice ==
    \E t1 \in Threads, t2 \in Threads :
        /\ t1 # t2
        /\ thr[t1].pc = "idle" /\ thr[t2].pc = "idle"
        /\ thr[t1].own \cap thr[t2].own # {}

\* C15: every operation invoked in a reachable state with any arguments runs
\* to completion and returns a result: after every call the process is
\* running, neither caught in a loop nor killed.
C15_EveryOperationReturns ==
    status = "ok"

\* a write at a block-aligned offset has not returned: its while loop goes
\* round without consuming anything
C15_WriteNeverReturns ==
    op = "write" /\ status = "hang"

\* the bytes of a file of the size between the offset and its end, at most len
Clamped(size, offset, len) ==
    IF size - offset <= 0 THEN 0 ELSE IF size - offset < len THEN size - offset ELSE len

\* C16: read clamps at the file's byte size.  For a regular file of size s,
\* read(offset, len) returns min(len, max(0, s - offset)) bytes and no byte
\* at a position >= s.
C16_ReadClampsAtSize ==
    status = "ok" =>
    \A path \in Paths, len \in 0 .. MaxLen, offset \in Offsets :
        LET e == advfs_path2inode(Img, path, 0).e
            r == ReadResult(Img, path, len, offset, O_RDONLY)
        IN (e # NULL /\ e # ROOT /\ inodes[e].type = ADVFS_REGULAR_FILE)
           => /\ r.st = "ok"
              /\ r.rc = Clamped(inodes[e].size, offset, len)
              /\ Len(r.buf) = Clamped(inodes[e].size, offset, len)

\* a read has returned bytes while every regular file is empty
C16_ReadPastEnd ==
    /\ op = "read" /\ ret > 0 /\ status = "ok"
    /\ \E i \in InodeNrs : inodes[i].type = ADVFS_REGULAR_FILE
    /\ \A i \in InodeNrs : inodes[i].type = ADVFS_REGULAR_FILE => inodes[i].size = 0

\* the sizes of advfs.h: ADVFS_BLOCK_SIZE, ADVFS_BLOCK_NUM, ADVFS_INODE_NUM,
\* sizeof(advfs_inode_t), sizeof(advfs_block_mgt_t)
HeaderBlockSize == 4096
HeaderBlockNum == 10240
HeaderInodeNum == 128
HeaderInodeSize == 512
HeaderMgtSize == 128

\* sblk->n_blocks of an image of the sizes of advfs.h
HeaderNBlocks ==
    DataBlockCount(HeaderBlockNum,
                   TableBlocks(HeaderInodeNum, HeaderBlockSize \div HeaderInodeSize),
                   TableBlocks(HeaderBlockNum, HeaderBlockSize \div HeaderMgtSize))

\* C17, as the code has it: on a freshly initialised image with
\* BLOCK_COUNT=10240, INODE_COUNT=128, 512-byte inodes and 128-byte
\* block-management records, statfs reports f_blocks=9903, f_bfree=9903,
\* f_files=128 and f_ffree=128.
C17_StatfsFreshImage ==
    (op = "statfs" /\ nops = 1)
    => Statvfs(HeaderNBlocks, HeaderInodeNum, sb) =
          [f_blocks |-> 9903, f_bfree |-> 9903, f_files |-> 128, f_ffree |-> 128]

\* C17, as the claim has it: statfs on that image reports f_blocks=10199,
\* f_bfree=10199, f_files=128 and f_ffree=128.
C17_StatfsAsClaimed ==
    (op = "statfs" /\ nops = 1)
    => Statvfs(HeaderNBlocks, HeaderInodeNum, sb) =
          [f_blocks |-> 10199, f_bfree |-> 10199, f_files |-> 128, f_ffree |-> 128]

\* statfs has been called on the freshly initialised image and reports every
\* data block free and every inode free
C17_StatfsOnFreshImage ==
    /\ op = "statfs" /\ nops = 1 /\ ret = 0
    /\ StatfsResult(Img) = [f_blocks |-> NBlocks, f_bfree |-> NBlocks,
                            f_files |-> ADVFS_INODE_NUM, f_ffree |-> ADVFS_INODE_NUM]

\* C18: create or mkdir of a path whose name already resolves, to a file or
\* to a directory, fails with EEXIST and leaves the image as it was: no inode
\* is allocated, the parent's size and children are unchanged.
C18_CreateExistingEEXIST ==
    status = "ok" =>
    \A path \in Paths :
        advfs_path2inode(Img, path, 0).e # NULL
        => /\ CreateResult(Img, path) = Result(Img, -EEXIST, "ok")
           /\ MkdirResult(Img, path) = Result(Img, -EEXIST, "ok")

\* a create or a mkdir of a name that a file or a directory carries has
\* returned EEXIST
C18_CreateRefused ==
    /\ op \in {"create", "mkdir"} /\ ret = -EEXIST
    /\ root.size > 0
    /\ \E i \in InodeNrs : inodes[i].type # ADVFS_UNUSED

\* C19: every operation that requires a regular file (read, write, truncate,
\* unlink), applied to a path that resolves to a directory, fails with EISDIR
\* and leaves the image as it was.
C19_DirectoryIsEISDIR ==
    status = "ok" =>
    \A path \in Paths :
        LET e == advfs_path2inode(Img, path, 0).e
        IN (e # NULL /\ _get_inode(Img, e).type = ADVFS_DIR)
           => /\ ReadResult(Img, path, 1, 0, O_RDWR).rc = -EISDIR
              /\ WriteResult(Img, path, <<1>>, 1, O_RDWR, 0) = Result(Img, -EISDIR, "ok")
              /\ TruncateResult(Img, path, 0) = Result(Img, -EISDIR, "ok")
              /\ UnlinkResult(Img, path) = Result(Img, -EISDIR, "ok")

\* an unlink of a path that resolves to a directory made by mkdir has
\* returned ENOENT, and the directory is still there
C19_UnlinkOfDirectory ==
    /\ op = "unlink" /\ ret = -ENOENT /\ status = "ok"
    /\ \E path \in Paths :
          /\ path # <<>>
          /\ advfs_path2inode(Img, path, 0).e # NULL
          /\ _get_inode(Img, advfs_path2inode(Img, path, 0).e).type = ADVFS_DIR
          /\ UnlinkResult(Img, path) = Result(Img, -ENOENT, "ok")

\* the nodes of the hash tree
TreeNodes == {Tree[k] : k \in 1 .. Len(Tree)}

\* C20: a data block whose refcount a decrement has brought to 0 is removed
\* from the hash tree and pushed onto the free list before any later
\* allocation: in no state in which an allocation can start is a data block
\* with refcount 0 a node of the tree, or neither free nor an indirect block
\* of a block map.
C20_UnreferencedBlockReleased ==
    (status = "ok" /\ nops > 0) =>
    \A b \in DataBlocks :
        mgt[b].ref = 0
        => /\ b \notin TreeNodes
           /\ b \in FreeSet(Img) \/ \E nr \in InodeNrs : b \in ChainBlocks(nr)

\* a write_block or an unref_block has decremented the refcount of a block
\* from 0, and the block is still allocated
C20_DecrementedNotReleased ==
    /\ op \in {"write_block", "unref_block"} /\ status = "ok"
    /\ \E b \in DataBlocks : mgt[b].ref = UMax - 1 /\ b \notin FreeSet(Img)

\* C21: after write_block(inode, payload, i) returns, slot i of the inode's
\* block map resolves to a block that stores the payload, in the three cases:
\* the content is at another block (the slot is re-pointed to the block found
\* and its refcount incremented), the content is at the slot's block (no
\* change), the content is new (the slot points to the block allocated, whose
\* record in the table is {hash = H(payload), ref = 1, left = 0, right = 0}).
C21_WriteBlockStoresPayload ==
    status = "ok" =>
    \A s \in SlotIds, buf \in Payloads :
        LET cur == _resolve_block_map(Img, s[1], s[2]).b
            found == _block_search(Img, SHA384(buf))
            w == advfs_write_block(Img, s[1], buf, s[2], 0)
            r == _resolve_block_map(w.m, s[1], s[2])
        IN w.st = "ok"
           => /\ r.st = "ok" /\ r.b \in DataBlocks /\ w.m.blk[r.b] = buf
              /\ found = 0
                 => w.m.mgt[r.b] = [hash |-> SHA384(buf), ref |-> 1, left |-> 0, right |-> 0]
              /\ (found # 0 /\ found # cur)
                 => r.b = found /\ w.m.mgt[found].ref = UInc(mgt[found].ref)
              /\ (found # 0 /\ found = cur) => w.m = Img

\* a write_block of new content has returned: the slot resolves to the block
\* allocated, the block stores the payload, and its record in the table
\* carries neither the payload's hash nor ref = 1
C21_NewBlockRecordNotStored ==
    /\ op = "write_block" /\ status = "ok" /\ nops = 1
    /\ \E i \in InodeNrs :
          /\ inodes[i].blocks[0] \in DataBlocks
          /\ blk[inodes[i].blocks[0]] \in Payloads
          /\ mgt[inodes[i].blocks[0]].hash # SHA384(blk[inodes[i].blocks[0]])
          /\ mgt[inodes[i].blocks[0]].ref # 1

\* C22: content-hash integrity.  In every reachable state, for every data
\* block that is a node of the hash tree, the hash stored in the
\* block-management record at the block's physical number is the hash of the
\* block's current content.
C22_ContentHashIntegrity ==
    (status = "ok" /\ nops > 0) =>
    \A b \in TreeNodes \cap DataBlocks : mgt[b].hash = SHA384(blk[b])

\* a write_block has made a data block that stores a payload the root of the
\* hash tree, and the hash in the block's record is not the payload's
C22_TreeNodeWithStaleHash ==
    /\ op = "write_block" /\ status = "ok"
    /\ sb.block_mgt_root \in DataBlocks
    /\ blk[sb.block_mgt_root] \in Payloads
    /\ mgt[sb.block_mgt_root].hash # SHA384(blk[sb.block_mgt_root])

\* ------------------------------------------------------------ ramblock.c: the hash index alone
\* _block_add and _block_delete applied to blocks whose records the caller has
\* prepared: the contents differ, so each record holds a hash of its own, and
\* left = right = 0; the tree is empty
Hashings == {h \in [DataBlocks -> 1 .. NBlocks] : \A a \in DataBlocks, b \in DataBlocks :
                                                      a # b => h[a] # h[b]}

PreparedMgt(h) ==
    [b \in AllBlocks |->
        [hash |-> IF b \in DataBlocks THEN h[b] ELSE 0, ref |-> 0, left |-> 0, right |-> 0]]

InitTree ==
    \E h \in Hashings :
        /\ sb = FreshSuper(0)
        /\ root = FreshInode(0)
        /\ inodes = InitInodes(0)
        /\ mgt = PreparedMgt(h)
        /\ blk = FreshBlocks(0)
        /\ status = "ok"
        /\ op = "init"
        /\ ret = 0
        /\ nops = 0
        /\ thr = [t \in Threads |-> IdleThread]

\* a walk that never ends kills the process
Walked(r) == Result(r.m, r.rc, IF r.rc = Overflow THEN "fault" ELSE "ok")

\* _block_add(advfs, b) for a block that is not in the tree
BlockAdd(b) ==
    /\ Running
    /\ b \notin {Tree[k] : k \in 1 .. Len(Tree)}
    /\ Done("block_add", Walked(_block_add(Img, b)))

\* _block_delete(advfs, b)
BlockDelete(b) ==
    /\ Running
    /\ Done("block_delete", Walked(_block_delete(Img, b)))

NextTree ==
    \/ \E b \in DataBlocks : BlockAdd(b)
    \/ \E b \in DataBlocks : BlockDelete(b)

SpecTree == InitTree /\ [][NextTree]_vars

\* the nodes under node n, n included
Under(m, n) == {TreeWalk(m, n, WalkFuel)[k] : k \in 1 .. Len(TreeWalk(m, n, WalkFuel))}

\* the links from the root form a finite binary search tree: the walk meets
\* no node twice (no cycle, no self-link, no node with two parents) and every
\* node's hash lies above those under its left link and below those under its
\* right link
IsSearchTree(m) ==
    /\ \A j \in 1 .. Len(TreeWalk(m, m.sb.block_mgt_root, WalkFuel)),
          k \in 1 .. Len(TreeWalk(m, m.sb.block_mgt_root, WalkFuel)) :
          j # k => TreeWalk(m, m.sb.block_mgt_root, WalkFuel)[j]
                   # TreeWalk(m, m.sb.block_mgt_root, WalkFuel)[k]
    /\ \A n \in Under(m, m.sb.block_mgt_root) :
          /\ \A l \in Under(m, m.mgt[n].left) : m.mgt[l].hash < m.mgt[n].hash
          /\ \A r \in Under(m, m.mgt[n].right) : m.mgt[r].hash > m.mgt[n].hash

\* C23: after any sequence of hash-index inserts and deletes the left/right
\* links reachable from the superblock's root form a finite binary search
\* tree: no cycle or self-link, no node with two parents, and under every node
\* the smaller hashes to the left and the larger ones to the right.
C23_HashTreeIsSearchTree ==
    status = "ok" => IsSearchTree(Img)

\* a delete of a node with two children has returned 0 and has left a node
\* that is its own left child
C23_SelfLinkAfterDelete ==
    /\ op = "block_delete" /\ ret = 0 /\ status = "ok"
    /\ \E b \in DataBlocks : b \in TreeNodes /\ mgt[b].left = b

\* C24: delete(b) removes exactly node b.  For a node with no child, with only
\* a left child, with only a right child or with two children, every other
\* block that search finds before the delete is found by search afterwards,
\* and b is found no longer.
C24_DeleteRemovesExactlyOne ==
    (status = "ok" /\ IsSearchTree(Img)) =>
    \A b \in TreeNodes :
        LET d == _block_delete(Img, b)
        IN /\ d.rc = 0
           /\ _block_search(d.m, mgt[b].hash) = 0
           /\ \A x \in DataBlocks \ {b} :
                 _block_search(Img, mgt[x].hash) = x
                 => _block_search(d.m, mgt[x].hash) = x

\* a delete has returned 0 and has left the tree empty, and the record of a
\* block still links to a right child: the child went with the node
C24_RightChildLost ==
    /\ op = "block_delete" /\ ret = 0 /\ status = "ok"
    /\ sb.block_mgt_root = 0
    /\ \E b \in DataBlocks : mgt[b].right \in DataBlocks /\ mgt[mgt[b].right].left = 0
                             /\ mgt[mgt[b].right].right = 0 /\ mgt[b].left = 0

\* the indirect blocks a map of n logical blocks of inode e needs
ChainFor(m, e, n) ==
    ChainSet(m, e.blocks[ADVFS_INODE_BLOCKPTR - 1], n - (ADVFS_INODE_BLOCKPTR - 1))

\* C25: shrink(inode, new_n_blocks) with new_n_blocks < n_blocks releases every
\* non-zero data block whose logical index is >= new_n_blocks, frees every
\* indirect block whose span lies entirely beyond new_n_blocks, frees no block
\* with logical index < new_n_blocks, and sets n_blocks = new_n_blocks.
C25_ShrinkFreesTail ==
    status = "ok" =>
    \A nr \in LiveInodes, nb \in 0 .. MaxPos :
        LET e == _get_inode(Img, nr)
            s == _shrink_block(Img, nr, nb)
        IN nb < e.n_blocks
           => /\ s.rc = 0
              /\ _get_inode(s.m, nr).n_blocks = nb
              /\ \A k \in nb .. (e.n_blocks - 1) :
                    BlockOf(Img, e, k) \in DataBlocks => BlockOf(Img, e, k) \in FreeSet(s.m)
              /\ (ChainFor(Img, e, e.n_blocks) \ ChainFor(Img, e, nb)) \subseteq FreeSet(s.m)
              /\ \A k \in 0 .. (nb - 1) : BlockOf(Img, e, k) \notin FreeSet(s.m)

\* a truncate to nothing has returned 0: the file has no block any more, and
\* the data block its first slot named is not on the free list
C25_TruncatedBlockNotFreed ==
    /\ op = "truncate" /\ ret = 0 /\ status = "ok"
    /\ \E i \in InodeNrs :
          /\ inodes[i].type = ADVFS_REGULAR_FILE
          /\ inodes[i].n_blocks = 0 /\ inodes[i].size = 0
          /\ inodes[i].blocks[0] \in DataBlocks \ FreeSet(Img)

\* C26: grow(inode, new_n_blocks) allocates only the indirect blocks needed to
\* reach index new_n_blocks - 1 and links them into the chain, leaves every
\* newly covered data slot at 0 (a hole), and sets n_blocks = new_n_blocks; it
\* allocates no data block.
C26_GrowLeavesHoles ==
    status = "ok" =>
    \A nr \in LiveInodes, nb \in 1 .. (MaxPos + 1) :
        LET e == _get_inode(Img, nr)
            g == _increase_block(Img, nr, nb)
        IN (nb > e.n_blocks /\ g.rc = 0)
           => /\ _get_inode(g.m, nr).n_blocks = nb
              /\ \A k \in e.n_blocks .. (nb - 1) : IsHole(g.m, _get_inode(g.m, nr), k)
              /\ g.m.sb.n_block_used - sb.n_block_used =
                    Cardinality(ChainFor(g.m, _get_inode(g.m, nr), nb) \ ChainFor(Img, e, e.n_blocks))

\* a write has grown an empty file to one block: the file's first slot names a
\* data block taken from the free list, and no indirect block was needed
C26_GrowTookDataBlock ==
    /\ op = "write" /\ ret > 0 /\ status = "ok"
    /\ \E i \in InodeNrs :
          /\ inodes[i].type = ADVFS_REGULAR_FILE
          /\ inodes[i].n_blocks = 1
          /\ inodes[i].blocks[0] \in DataBlocks \ FreeSet(Img)
          /\ inodes[i].blocks[ADVFS_INODE_BLOCKPTR - 1] = 0

\* ------------------------------------------------------------ ramblock.c: the block map alone
\* _resolve_block_map and _update_block_map applied to inodes whose maps have
\* been grown: inode 0 covers indices 0 .. 2 through the chain blocks c[1] and
\* c[2], inode 1 covers 0 .. 1 through c[3], inode 2 covers index 0; every
\* data slot is a hole
ChainLayouts ==
    {c \in [1 .. 3 -> DataBlocks] : \A i \in 1 .. 3, j \in 1 .. 3 : i # j => c[i] # c[j]}

GrownInode(type, n, chain) ==
    [type |-> type, size |-> 0, n_blocks |-> n, name |-> "",
     blocks |-> [k \in Slots |-> IF k = ADVFS_INODE_BLOCKPTR - 1 THEN chain ELSE 0]]

GrownInodes(c) ==
    [i \in InodeNrs |->
        IF i = 0 THEN GrownInode(ADVFS_DIR, 3, c[1])
        ELSE IF i = 1 THEN GrownInode(ADVFS_REGULAR_FILE, 2, c[3])
        ELSE GrownInode(ADVFS_REGULAR_FILE, 1, 0)]

GrownBlocks(c) ==
    [b \in DataBlocks |->
        [k \in Cells |-> IF b = c[1] /\ k = ChainK THEN c[2] ELSE 0]]

InitMap ==
    \E c \in ChainLayouts :
        /\ sb = [FreshSuper(0) EXCEPT !.freelist = 0, !.n_block_used = 3]
        /\ root = FreshInode(0)
        /\ inodes = GrownInodes(c)
        /\ mgt = FreshMgt(0)
        /\ blk = GrownBlocks(c)
        /\ status = "ok"
        /\ op = "init"
        /\ ret = 0
        /\ nops = 0
        /\ thr = [t \in Threads |-> IdleThread]

\* the physical block numbers stored into a slot: none, or one of the first
\* MaxPayload data blocks
MapValues == {0} \cup {PtrBlock + k : k \in 0 .. (MaxPayload - 1)}

Resolved(r) == Result(Img, r.b, r.st)

ResolveBlockMap(inr, pos) ==
    Running /\ Done("resolve_block_map", Resolved(_resolve_block_map(Img, inr, pos)))

UpdateBlockMap(inr, pos, pb) ==
    Running /\ Done("update_block_map", Mapped(_update_block_map(Img, inr, pos, pb)))

NextMap ==
    \/ \E inr \in InodeNrs, pos \in Positions : ResolveBlockMap(inr, pos)
    \/ \E inr \in InodeNrs, pos \in Positions, pb \in MapValues : UpdateBlockMap(inr, pos, pb)

SpecMap == InitMap /\ [][NextMap]_vars

\* the map of the inode covers the logical index
Covers(m, s) == s[2] < m.inodes[s[1]].n_blocks

RECURSIVE Hop(_, _, _)
\* the chain block h links after chain block b
Hop(m, b, h) == IF h = 0 \/ b \notin DataBlocks THEN b ELSE Hop(m, m.blk[b][ChainK], h - 1)

\* the cell that holds the slot of logical index i of the inode, found by the
\* division: hop (i - (INODE_BLOCKPTR - 1)) div K, slot (i - (INODE_BLOCKPTR - 1)) mod K
SlotCell(m, s) ==
    IF s[2] < ADVFS_INODE_BLOCKPTR - 1 THEN m.inodes[s[1]].blocks[s[2]]
    ELSE m.blk[Hop(m, m.inodes[s[1]].blocks[ADVFS_INODE_BLOCKPTR - 1],
                   (s[2] - (ADVFS_INODE_BLOCKPTR - 1)) \div ChainK)]
              [(s[2] - (ADVFS_INODE_BLOCKPTR - 1)) % ChainK]

\* C27: block map round-trip and frame.  For an inode whose map covers index
\* i, update(inode, i, pb) stores pb in the slot the division selects (the
\* direct slot, or hop (i - (INODE_BLOCKPTR - 1)) div K, slot ... mod K of the
\* chain), resolve(inode, i) then returns pb, and resolve(inode, j) is as it
\* was for every j # i and every other inode, the chain links included.
C27_BlockMapRoundTrip ==
    status = "ok" =>
    \A s \in SlotIds, pb \in MapValues :
        LET u == _update_block_map(Img, s[1], s[2], pb)
        IN Covers(Img, s)
           => /\ u.st = "ok"
              /\ SlotCell(u.m, s) = pb
              /\ _resolve_block_map(u.m, s[1], s[2]) = [st |-> "ok", b |-> pb]
              /\ \A t \in SlotIds \ {s} :
                    Covers(Img, t)
                    => _resolve_block_map(u.m, t[1], t[2]) = _resolve_block_map(Img, t[1], t[2])
              /\ \A b \in DataBlocks : u.m.blk[b][ChainK] = blk[b][ChainK]
              /\ \A i \in InodeNrs :
                    u.m.inodes[i].blocks[ADVFS_INODE_BLOCKPTR - 1]
                       = inodes[i].blocks[ADVFS_INODE_BLOCKPTR - 1]

\* an update of the slot of index 2 of inode 0, in the second block of its
\* chain, has returned: the slot holds a block number, the slot of index 1 of
\* the same inode and the slots of inode 1 hold what they held
C27_SecondHopUpdated ==
    /\ op = "update_block_map" /\ status = "ok" /\ nops = 1
    /\ _resolve_block_map(Img, 0, 2).b \in DataBlocks
    /\ _resolve_block_map(Img, 0, 1).b = 0
    /\ _resolve_block_map(Img, 1, 1).b = 0
    /\ SlotCell(Img, <<0, 2>>) = _resolve_block_map(Img, 0, 2).b

\* C28: in every state reached by create, write and truncate every regular
\* file has n_blocks = ceil(size / BLOCK_SIZE); a write that ends below the
\* end of the file changes neither size nor n_blocks.
C28_BlocksMatchSize ==
    (status = "ok" /\ op \in {"init", "create", "write", "truncate"}) =>
    \A i \in InodeNrs :
        inodes[i].type = ADVFS_REGULAR_FILE
        => inodes[i].n_blocks = (inodes[i].size + ADVFS_BLOCK_SIZE - 1) \div ADVFS_BLOCK_SIZE

\* a write that ended below the end of the file has returned its length: the
\* file has the size it had and fewer blocks than the size needs
C28_WriteShrankTheMap ==
    /\ op = "write" /\ ret > 0 /\ status = "ok"
    /\ \E i \in InodeNrs :
          /\ inodes[i].type = ADVFS_REGULAR_FILE
          /\ inodes[i].size > ADVFS_BLOCK_SIZE
          /\ inodes[i].n_blocks = 1

\* the byte at position p of the file whose inode record is e
ByteAt(m, e, p) ==
    _get_block(m, BlockOf(m, e, p \div ADVFS_BLOCK_SIZE))[p % ADVFS_BLOCK_SIZE]

\* C29: write frame.  A successful write(f, o, b) changes no byte of f outside
\* [o, o + |b|) that was below f's size before the write, and changes no byte,
\* size or attribute of any other file.
C29_WriteFrame ==
    status = "ok" =>
    \A path \in Paths, buf \in Buffers, offset \in Offsets :
        \A j0 \in StaleJ(offset) :
            LET e == advfs_path2inode(Img, path, 0).e
                w == WriteResult(Img, path, buf, offset, O_RDWR, j0)
            IN (/\ e # NULL /\ e # ROOT
                /\ inodes[e].type = ADVFS_REGULAR_FILE
                /\ Len(buf) > 0 /\ w.st = "ok" /\ w.rc = Len(buf))
               => /\ \A p \in 0 .. (inodes[e].size - 1) :
                        (p < offset \/ p >= offset + Len(buf))
                        => ByteAt(w.m, w.m.inodes[e], p) = ByteAt(Img, inodes[e], p)
                  /\ \A f \in InodeNrs \ {e} :
                        inodes[f].type = ADVFS_REGULAR_FILE
                        => /\ w.m.inodes[f] = inodes[f]
                           /\ \A p \in 0 .. (inodes[f].size - 1) :
                                 ByteAt(w.m, inodes[f], p) = ByteAt(Img, inodes[f], p)

\* a write to a file has returned its length while another file of the root
\* directory holds bytes in a block of its own
C29_WriteBesideAnotherFile ==
    /\ op = "write" /\ ret > 0 /\ status = "ok"
    /\ root.size = 2
    /\ \E f \in InodeNrs, h \in InodeNrs :
          /\ f # h
          /\ inodes[f].type = ADVFS_REGULAR_FILE /\ inodes[h].type = ADVFS_REGULAR_FILE
          /\ inodes[f].name # inodes[h].name
          /\ inodes[f].size > 0 /\ inodes[h].size > 0
          /\ inodes[f].blocks[0] \in DataBlocks /\ inodes[h].blocks[0] \in DataBlocks
          /\ inodes[f].blocks[0] # inodes[h].blocks[0]

\* the path without its last component: the path of the parent
Parent(path) == SubSeq(path, 1, Len(path) - 1)

\* C30: remove_entry compacts the parent by copying inode numbers down the
\* child list and moves no inode: every surviving sibling keeps its inode
\* number and its inode record, and the only inode whose type changes is the
\* removed one, to ADVFS_UNUSED.
C30_RemoveMovesNoInode ==
    status = "ok" =>
    \A path \in Paths \ {<<>>} :
        LET e == advfs_path2inode(Img, path, 0).e
            d == advfs_path2inode(Img, Parent(path), 0).e
            r == advfs_remove_inode(Img, path)
        IN (e # NULL /\ r.rc = 0)
           => /\ r.m.inodes[e].type = ADVFS_UNUSED
              /\ \A i \in InodeNrs \ {e, d} : r.m.inodes[i] = inodes[i]
              /\ \A q \in Paths \ {path} :
                    (/\ advfs_path2inode(Img, q, 0).e # NULL
                     /\ Parent(q) = Parent(path))
                    => advfs_path2inode(r.m, q, 0).e = advfs_path2inode(Img, q, 0).e

\* an unlink or a rmdir has returned 0 and the inode table holds the record of
\* a surviving sibling twice: at the number of the removed inode and at its own
C30_SiblingInodeCopied ==
    /\ op \in {"unlink", "rmdir"} /\ ret = 0 /\ status = "ok"
    /\ root.size = 1
    /\ \E i \in InodeNrs, j \in InodeNrs :
          /\ i # j
          /\ inodes[i] = inodes[j]
          /\ inodes[i].type # ADVFS_UNUSED
          /\ inodes[i].name \in Names
          /\ ChildAt(Img, ROOT, 0) = i

\* ------------------------------------------------------------ claims: creation
\* the inodes of the table whose type is ADVFS_UNUSED
UnusedInodes(m) == {i \in InodeNrs : m.inodes[i].type = ADVFS_UNUSED}

\* path names a missing entry of an existing directory of image m
MissingIn(m, path) ==
    /\ path # <<>>
    /\ advfs_path2inode(m, Parent(path), 0).e # NULL
    /\ _get_inode(m, advfs_path2inode(m, Parent(path), 0).e).type = ADVFS_DIR
    /\ advfs_path2inode(m, path, 0).e = NULL

\* C31: a lookup with create of a missing terminal name in an existing
\* directory returns the lowest-numbered ADVFS_UNUSED inode of the whole inode
\* table, has put its number at child index size of the directory, has zeroed
\* the inode and stored the name in it, and has incremented the directory's
\* size and the superblock's n_inode_used by exactly 1.
C31_LookupCreatesEntry ==
    status = "ok" =>
    \A path \in Paths :
        LET d == advfs_path2inode(Img, Parent(path), 0).e
            r == advfs_path2inode(Img, path, 1)
        IN (MissingIn(Img, path) /\ r.e # NULL)
           => /\ r.e = MinOf(UnusedInodes(Img))
              /\ ChildAt(r.m, d, _get_inode(Img, d).size) = r.e
              /\ r.m.inodes[r.e] = ZeroInode(path[Len(path)])
              /\ _get_inode(r.m, d).size = _get_inode(Img, d).size + 1
              /\ r.m.sb.n_inode_used = UInc(sb.n_inode_used)

\* a create has returned 0 for a second child of the root directory, the
\* child stands at index 1 of the directory, and n_inode_used is what it was
\* at initialisation
C31_SecondChildUncounted ==
    /\ op = "create" /\ ret = 0 /\ status = "ok"
    /\ root.size = 2
    /\ ChildAt(Img, ROOT, 1) = 1
    /\ inodes[1].type = ADVFS_REGULAR_FILE /\ inodes[1].name \in Names
    /\ sb.n_inode_used = 0

\* directory d of image m can take one more child: it has fewer than
\* ADVFS_MAX_CHILDREN of them and its block map can be grown to hold the next
SpareCapacity(m, d) ==
    /\ _get_inode(m, d).size < ADVFS_MAX_CHILDREN
    /\ _resize_block(m, d, _get_inode(m, d).size \div PtrsPerBlock + 1).rc = 0

\* the inode numbers in the slots 0 .. size - 1 of directory d, in order
ChildList(m, d) == [i \in 0 .. (_get_inode(m, d).size - 1) |-> ChildAt(m, d, i)]

\* C32: create and mkdir of a new name in an existing directory answer EACCES
\* only when the inode table or the directory's capacity is exhausted: they
\* return 0 whenever an inode of the table is ADVFS_UNUSED and the parent has
\* spare capacity, and a call that answers EACCES leaves the parent's size,
\* its child list, n_inode_used and n_block_used as they were.
C32_CreateRefusedOnlyWhenExhausted ==
    status = "ok" =>
    \A path \in Paths, type \in {ADVFS_REGULAR_FILE, ADVFS_DIR} :
        LET d == advfs_path2inode(Img, Parent(path), 0).e
            r == MakeEntry(Img, path, type)
        IN MissingIn(Img, path)
           => /\ (UnusedInodes(Img) # {} /\ SpareCapacity(Img, d)) => r.rc = 0
              /\ r.rc = -EACCES
                 => /\ _get_inode(r.m, d).size = _get_inode(Img, d).size
                    /\ ChildList(r.m, d) = ChildList(Img, d)
                    /\ r.m.sb.n_inode_used = sb.n_inode_used
                    /\ r.m.sb.n_block_used = sb.n_block_used

\* a create or a mkdir has answered EACCES while the last inode of the table
\* is ADVFS_UNUSED and the root directory and a subdirectory of it have spare
\* capacity
C32_RefusedWithUnusedInode ==
    /\ op \in {"create", "mkdir"} /\ ret = -EACCES /\ status = "ok"
    /\ UnusedInodes(Img) = {ADVFS_INODE_NUM - 1}
    /\ SpareCapacity(Img, ROOT)
    /\ \E k \in Children(Img, ROOT) \cap InodeNrs :
          inodes[k].type = ADVFS_DIR /\ SpareCapacity(Img, k)

\* ------------------------------------------------------------ claims: truncate
\* the logical blocks of a file that lie wholly inside the byte range [s, t)
WhollyIn(s, t) ==
    {k \in 0 .. (t \div ADVFS_BLOCK_SIZE) :
        k * ADVFS_BLOCK_SIZE >= s /\ (k + 1) * ADVFS_BLOCK_SIZE <= t}

\* C33: an extending truncate(path, t) of a file of size s < t that returns 0
\* leaves the bytes [0, s) as they were, makes the bytes [s, t) read as zero,
\* and zero-fills through the deduplicating write path: the logical blocks
\* that lie wholly in the extension all resolve to one physical zero block.
C33_ExtendSharesZeroBlock ==
    status = "ok" =>
    \A path \in Paths, t \in 1 .. (MaxOff + MaxLen) :
        LET e == advfs_path2inode(Img, path, 0).e
            r == TruncateResult(Img, path, t)
        IN (/\ e # NULL /\ e # ROOT
            /\ inodes[e].type = ADVFS_REGULAR_FILE
            /\ inodes[e].size < t
            /\ r.st = "ok" /\ r.rc = 0)
           => /\ r.m.inodes[e].size = t
              /\ \A p \in 0 .. (inodes[e].size - 1) :
                    ByteAt(r.m, r.m.inodes[e], p) = ByteAt(Img, inodes[e], p)
              /\ \A p \in inodes[e].size .. (t - 1) : ByteAt(r.m, r.m.inodes[e], p) = 0
              /\ \A k \in WhollyIn(inodes[e].size, t), l \in WhollyIn(inodes[e].size, t) :
                    BlockOf(r.m, r.m.inodes[e], k) = BlockOf(r.m, r.m.inodes[e], l)

\* a truncate has returned 0 and left a file of two blocks whose logical
\* blocks 0 and 1 are two data blocks, each all zero
C33_TwoZeroBlocks ==
    /\ op = "truncate" /\ ret = 0 /\ status = "ok"
    /\ \E nr \in InodeNrs :
          /\ inodes[nr].type = ADVFS_REGULAR_FILE
          /\ inodes[nr].size = 2 * ADVFS_BLOCK_SIZE
          /\ BlockOf(Img, inodes[nr], 0) \in DataBlocks
          /\ BlockOf(Img, inodes[nr], 1) \in DataBlocks
          /\ BlockOf(Img, inodes[nr], 0) # BlockOf(Img, inodes[nr], 1)
          /\ blk[BlockOf(Img, inodes[nr], 0)] = ZeroBlock
          /\ blk[BlockOf(Img, inodes[nr], 1)] = ZeroBlock

\* ------------------------------------------------------------ claims: insert failure
\* the links of the hash tree: its root and the children of every record
TreeLinks(m) ==
    [root |-> m.sb.block_mgt_root,
     left |-> [b \in AllBlocks |-> m.mgt[b].left],
     right |-> [b \in AllBlocks |-> m.mgt[b].right]]

\* C34: when the insert into the hash index that write_block performs for a
\* new block fails because a node with an equal hash key is in the tree, the
\* insert leaves the tree unchanged and write_block reports the failure to
\* its caller as EFAULT instead of returning success.
C34_InsertFailurePropagated ==
    status = "ok" =>
    \A s \in SlotIds, buf \in Payloads, junk \in Garbage :
        LET cur == _resolve_block_map(Img, s[1], s[2])
            a == advfs_alloc_block(Img)
            d == _block_add(WriteRaw(a.m, a.b, buf), a.b)
            w == advfs_write_block(Img, s[1], buf, s[2], junk)
        IN (/\ cur.st = "ok"
            /\ _block_search(Img, SHA384(buf)) = 0
            /\ a.b # 0
            /\ d.rc = -1)
           => /\ TreeLinks(d.m) = TreeLinks(Img)
              /\ w.rc = -EFAULT

\* a write_block has returned 0 and mapped a slot to a data block that is off
\* the free list and is no node of the hash tree, its record carrying the
\* hash key of the tree's root
C34_MappedBlockOutsideTree ==
    /\ op = "write_block" /\ ret = 0 /\ status = "ok"
    /\ sb.block_mgt_root \in DataBlocks
    /\ \E s \in SlotIds :
          LET r == _resolve_block_map(Img, s[1], s[2])
          IN /\ r.st = "ok" /\ r.b \in DataBlocks
             /\ r.b \notin FreeSet(Img)
             /\ r.b \notin TreeNodes
             /\ blk[r.b] \in Payloads
             /\ mgt[r.b].hash = mgt[sb.block_mgt_root].hash

\* ------------------------------------------------------------ claims: stale data
\* C35: no stale data exposure.  After a write beyond the end of a regular
\* file has returned its length, a read of any position of the gap between
\* the old size and the offset of the write returns a zero byte, not what the
\* block taken for the file held before (the content of an earlier file, or
\* the link of the free list).
C35_GapReadsZero ==
    status = "ok" =>
    \A path \in Paths, buf \in Buffers, offset \in Offsets :
        \A j0 \in StaleJ(offset) :
            LET e == advfs_path2inode(Img, path, 0).e
                w == WriteResult(Img, path, buf, offset, O_RDWR, j0)
            IN (/\ e # NULL /\ e # ROOT
                /\ inodes[e].type = ADVFS_REGULAR_FILE
                /\ inodes[e].size < offset
                /\ Len(buf) > 0 /\ w.st = "ok" /\ w.rc = Len(buf))
               => \A p \in inodes[e].size .. (offset - 1) :
                      /\ ReadResult(w.m, path, 1, p, O_RDONLY).st = "ok"
                      /\ ReadResult(w.m, path, 1, p, O_RDONLY).buf = <<0>>

\* a write of one byte at offset 1 of an empty file has returned 1, and byte 0
\* of the file is the free-list link that the block taken for it held
C35_GapHoldsFreeListLink ==
    /\ op = "write" /\ ret = 1 /\ status = "ok"
    /\ \E nr \in InodeNrs :
          /\ inodes[nr].type = ADVFS_REGULAR_FILE
          /\ inodes[nr].size = 2
          /\ inodes[nr].blocks[0] \in DataBlocks
          /\ blk[inodes[nr].blocks[0]][0] \in DataBlocks
          /\ blk[inodes[nr].blocks[0]][1] = 1

\* ------------------------------------------------------------ claims: threads
\* no thread is inside a handler
AllIdle == \A t \in Threads : ~InHandler(t)

\* the blocks the handlers that have returned have put into block maps
Owned == UNION {thr[t].own : t \in Threads}

\* C36: allocations and frees run by two threads of the host whose steps
\* interleave are atomic.  Once the handlers have returned the image is as
\* calls run one after the other leave it: no block has been given to two
\* callers, the free list holds exactly the data blocks given to nobody, each
\* once, and n_block_used counts exactly the blocks given out.
C36_AllocationsAtomic ==
    AllIdle =>
        /\ \A t1 \in Threads, t2 \in Threads :
              t1 # t2 => thr[t1].own \cap thr[t2].own = {}
        /\ FreeSet(Img) = DataBlocks \ Owned
        /\ Len(FreeList) = Cardinality(FreeSet(Img))
        /\ sb.n_block_used = Cardinality(Owned)

\* two handlers have returned, each after two allocations, and n_block_used
\* counts fewer blocks than have left the free list
C36_LostCount ==
    /\ AllIdle
    /\ \A t \in Threads : thr[t].calls > 0 /\ Cardinality(thr[t].own) = 2
    /\ sb.n_block_used < Cardinality(DataBlocks \ FreeSet(Img))

\* ------------------------------------------------------------ claims: directory as a set of names
\* the paths of the directories the operations work in
DirPaths == {Parent(path) : path \in Paths \ {<<>>}}

IsDir(m, dp) ==
    /\ advfs_path2inode(m, dp, 0).e # NULL
    /\ _get_inode(m, advfs_path2inode(m, dp, 0).e).type = ADVFS_DIR

\* the type of the inode a lookup of the path resolves to
TypeAt(m, path) ==
    IF advfs_path2inode(m, path, 0).e = NULL THEN ADVFS_UNUSED
    ELSE _get_inode(m, advfs_path2inode(m, path, 0).e).type

\* the names readdir hands to the filler after "." and ".."
Listing(m, dp) ==
    SubSeq(ReaddirResult(m, dp).names, 3, Len(ReaddirResult(m, dp).names))

\* the entries of the directory: each name listed, with the type of the inode
\* a lookup of the name resolves to
Entries(m, dp) ==
    {<<Listing(m, dp)[k], TypeAt(m, dp \o <<Listing(m, dp)[k]>>)>> :
        k \in 1 .. Len(Listing(m, dp))}

\* readdir returns 0 and lists ".", ".." and then names that are pairwise
\* distinct and resolve to files and directories
WellListed(m, dp) ==
    /\ ReaddirResult(m, dp).rc = 0 /\ ReaddirResult(m, dp).st = "ok"
    /\ SubSeq(ReaddirResult(m, dp).names, 1, 2) = <<".", "..">>
    /\ \A i \in 1 .. Len(Listing(m, dp)), j \in 1 .. Len(Listing(m, dp)) :
          i # j => Listing(m, dp)[i] # Listing(m, dp)[j]
    /\ \A en \in Entries(m, dp) : en[2] \in {ADVFS_REGULAR_FILE, ADVFS_DIR}

\* path names an entry of the directory at dp
EntryOf(path, dp) == path # <<>> /\ Parent(path) = dp

\* the entries of the directory at dp after a create or a mkdir of path has
\* left image r.m and returned r.rc
AfterMake(r, path, type, dp) ==
    /\ IsDir(r.m, dp) /\ WellListed(r.m, dp)
    /\ Entries(r.m, dp) =
          IF r.rc = 0 /\ EntryOf(path, dp)
          THEN Entries(Img, dp) \cup {<<path[Len(path)], type>>}
          ELSE Entries(Img, dp)
    /\ (r.rc = 0 /\ EntryOf(path, dp))
       => \A en \in Entries(Img, dp) : en[1] # path[Len(path)]

\* the same after an unlink or a rmdir of path
AfterRemove(r, path, dp) ==
    IsDir(r.m, dp)
    => /\ WellListed(r.m, dp)
       /\ Entries(r.m, dp) =
             IF r.rc = 0 /\ EntryOf(path, dp)
             THEN Entries(Img, dp) \ {<<path[Len(path)], TypeAt(Img, path)>>}
             ELSE Entries(Img, dp)
       /\ (r.rc = 0 /\ EntryOf(path, dp))
          => <<path[Len(path)], TypeAt(Img, path)>> \in Entries(Img, dp)

\* C37: a directory is a set of names.  In every state that create, mkdir,
\* unlink and rmdir lead to, readdir of a directory yields ".", ".." and then
\* pairwise distinct names, each resolving by lookup to a file or a
\* directory; a create or a mkdir that returns 0 adds exactly its name with
\* its type, an unlink or a rmdir that returns 0 removes exactly its name, and
\* a call that fails or works in another directory leaves the entries as they
\* were: the names listed are those created and not since removed, each once,
\* with the type they were created with.
C37_DirectoryIsSetOfNames ==
    status = "ok" =>
    \A dp \in DirPaths :
        IsDir(Img, dp)
        => /\ WellListed(Img, dp)
           /\ \A path \in Paths :
                 /\ AfterMake(CreateResult(Img, path), path, ADVFS_REGULAR_FILE, dp)
                 /\ AfterMake(MkdirResult(Img, path), path, ADVFS_DIR, dp)
                 /\ AfterRemove(UnlinkResult(Img, path), path, dp)
                 /\ AfterRemove(RmdirResult(Img, path), path, dp)

\* an unlink has returned 0 and emptied a subdirectory of the root: readdir
\* of the root lists the subdirectory alone, readdir of the subdirectory
\* lists no name
C37_SubdirectoryEmptied ==
    /\ op = "unlink" /\ ret = 0 /\ status = "ok"
    /\ \E n \in Names :
          /\ ReaddirResult(Img, <<>>).names = <<".", "..", n>>
          /\ TypeAt(Img, <<n>>) = ADVFS_DIR
          /\ ReaddirResult(Img, <<n>>).names = <<".", "..">>
          /\ \E i \in InodeNrs : inodes[i].type = ADVFS_UNUSED /\ inodes[i].name \in Names

\* ------------------------------------------------------------ claims: initialisation
\* C38: immediately after advfs_init() the image is well formed: the free
\* list that starts at the superblock's head links every data block
\* PtrBlock .. ADVFS_BLOCK_NUM - 1 exactly once and ends with next = 0;
\* n_block_used and n_inode_used are 0; the root of the hash tree is 0; the
\* block-management record of every data block, indexed by its physical
\* block number, has ref = 0; the root inode is a directory of size 0 with
\* n_blocks 0 and every other inode is ADVFS_UNUSED.
C38_InitialImageWellFormed ==
    nops = 0 =>
        /\ Len(FreeList) = NBlocks
        /\ FreeSet(Img) = DataBlocks
        /\ blk[FreeList[Len(FreeList)]][0] = 0
        /\ sb.n_block_used = 0 /\ sb.n_inode_used = 0
        /\ sb.block_mgt_root = 0
        /\ \A b \in DataBlocks : mgt[b].ref = 0
        /\ inodes[0].type = ADVFS_DIR /\ inodes[0].size = 0 /\ inodes[0].n_blocks = 0
        /\ \A i \in InodeNrs \ {0} : inodes[i].type = ADVFS_UNUSED

\* the image advfs_init() has built in memory that did not read as zero: the
\* root of the hash tree and the refcount in the record of the last data
\* block hold what the memory held
C38_InitLeavesGarbage ==
    /\ nops = 0 /\ op = "init" /\ status = "ok"
    /\ inodes[0].type = ADVFS_DIR
    /\ sb.block_mgt_root # 0
    /\ mgt[ADVFS_BLOCK_NUM - 1].ref # 0

====
